---- MODULE Spec2Model ----
(***************************************************************************)
(* A model of rsyn, a client for the rsync wire protocol (version 27).     *)
(*                                                                         *)
(* The module holds several specifications over one set of variables:      *)
(*   Spec       the session: Connection::handshake and Connection::receive *)
(*              with the phase-1 generator and receiver threads            *)
(*              (src/src/connection.rs);                                   *)
(*   SpecFlist  read_file_list over a byte stream (src/src/flist.rs);      *)
(*   SpecName   validate_name as a pure function (src/src/flist.rs);       *)
(*   SpecDemux  DemuxRead over a framed byte stream (src/src/mux.rs);      *)
(*   SpecClient Client: from_str, the options, build_args and list_files   *)
(*              (src/src/client.rs);                                       *)
(*   SpecFromStr Client::from_str as a pure function (src/src/client.rs);  *)
(*   SpecTree   LocalTree and WriteFile over a filesystem                  *)
(*              (src/src/localtree.rs);                                    *)
(*   SpecVarint read_i64 and read_server_statistics over a byte stream     *)
(*              (src/src/varint.rs, src/src/connection.rs);                *)
(*   SpecHandshake Connection::handshake and the reads and writes after it *)
(*              over the bytes of both directions                          *)
(*              (src/src/connection.rs, src/src/mux.rs);                   *)
(*   SpecPipes  phase 1 of a download over two pipes of finite capacity,   *)
(*              under fair scheduling (src/src/connection.rs);             *)
(*   SpecMux    MuxWrite in front of DemuxRead (src/src/mux.rs).           *)
(* A specification leaves the variables of the other components at their   *)
(* idle values.                                                            *)
(***************************************************************************)
EXTENDS Integers, Sequences, FiniteSets, TLC

(***************************************************************************)
(* Bounds of the model.                                                    *)
(***************************************************************************)
\* Longest file list the server hands to a session.
MaxFiles == 2
\* Most file records the server sends in phase 1 of a session.
MaxRecords == 2
\* Most literal bytes the server sends in phase 1 of a session.
MaxLiteralBytes == 2
\* Longest literal chunk (largest positive token).
MaxToken == 2

(***************************************************************************)
(* Program constants.                                                      *)
(***************************************************************************)
MY_PROTOCOL_VERSION == 27
MD4_SUM_LENGTH == 16

(***************************************************************************)
(* Values and helpers.                                                     *)
(***************************************************************************)
Min(a, b) == IF a < b THEN a ELSE b

\* Option<T>: None is the empty sequence, Some(v) is <<v>>.
None == <<>>
Some(v) == <<v>>

\* i32::to_le_bytes: the four little-endian bytes of a 32-bit two's
\* complement value.  The low 31 bits are taken from v (or from v + 2^31
\* when v is negative) and the sign goes to the top bit of the last byte.
ToLeBytes32(v) ==
  LET w == IF v < 0 THEN (v + 2147483647) + 1 ELSE v
      top == IF v < 0 THEN 128 ELSE 0
  IN  << w % 256, (w \div 256) % 256, (w \div 65536) % 256,
         (w \div 16777216) + top >>

\* The md4 crate is external to the repository.  The digest is modelled as a
\* deterministic fold over the bytes fed to the hasher, so that two inputs
\* can be told apart and can collide; the receiver only compares digests.
RECURSIVE Md4Fold(_, _)
Md4Fold(h, s) ==
  IF s = <<>> THEN h ELSE Md4Fold((h * 31 + Head(s) + 1) % 251, Tail(s))

\* Md4::new() followed by input() of every byte of `bytes` and result().
Md4Result(bytes) == Md4Fold(7, bytes)

\* unix_mode::type_bits and unix_mode::is_file.
type_bits(mode) == (mode \div 4096) % 16
is_file(mode) == type_bits(mode) = 8

\* Mode words the server reports: a regular file (0o0100640) and a
\* directory (0o0041777), the examples of unix_mode's documentation.
ModeFile == 33184
ModeDir == 17407

(***************************************************************************)
(* State of a session.                                                     *)
(***************************************************************************)
VARIABLES
  pc,                      \* position of the thread that runs handshake/receive
  remote_protocol_version, \* handshake's local; 0 before it is read and after the handshake returns Ok
  protocol_version,        \* Connection.protocol_version
  checksum_seed,           \* Connection.checksum_seed
  list_only,               \* Connection.options.list_only
  child,                   \* the child process: "running", "waited", "dropped"
  wv,                      \* the writer half: "open" or "closed"
  demuxed,                 \* whether rv reads through DemuxRead
  out,                     \* every i32 the client has written, in order
  inp,                     \* what the client has read from the server, by kind
  file_list,               \* the list read_file_list returned
  summary,                 \* the Summary of the operation
  phase,                   \* loop variable of `for phase in 1..=max_phase`
  rpc,                     \* position of the rsyn_receiver thread
  hasher,                  \* bytes fed to receive_file's Md4 so far
  cur,                     \* the record being received: index, token, literals
  records,                 \* completed records, in order of completion
  local_tree,              \* files written through the LocalTree: name, content
  gpc,                     \* position of generate_files
  g_next                   \* next file-list position generate_files looks at

(***************************************************************************)
(* State of the components that are checked on their own.                  *)
(***************************************************************************)
VARIABLES
  name,                    \* validate_name: the byte string under test
  name_result,             \* validate_name: "none" before the call, then its result
  wire,                    \* read_file_list: bytes of rv not yet consumed
  flist_vec,               \* read_file_list: its Vec `file_list`
  decoded,                 \* read_file_list: the entries decoded, in wire order
  flist_state,             \* read_file_list: "idle", "reading", "ok", "err", "panicked"
  flist_sent,              \* read_file_list: the entries the server wrote, one element each
  r,                       \* DemuxRead.r: bytes of the underlying stream not yet read
  current_packet_len,      \* DemuxRead.current_packet_len
  delivered,               \* DemuxRead: every byte read() has returned, in order
  remote_log,              \* DemuxRead: message payloads handed to the log
  frames,                  \* DemuxRead: the frames the server wrote
  lost,                    \* DemuxRead: how many bytes of them never arrived
  demux_state,             \* DemuxRead: "idle", "open" before the first read, then
                           \* the outcome of the last read: "data", "eof" or the error
  addr,                    \* Client::from_str: its argument, a sequence of characters
  client,                  \* the Client, or None before it is built
  args,                    \* the argument vector of the command Client::connect starts
  conn_options,            \* the Options the Connection runs with, or None
  client_pc,               \* "idle", "new", "built", "args", "connected", "failed", "panicked"
  tree_fs,                 \* the filesystem: what is at each path
  lt_alive,                \* whether the LocalTree has not been dropped
  wf,                      \* the WriteFile: None, or Some of its final_path and temp path
  wf_before,               \* what was at the final path when write_file was called
  wf_written,              \* the bytes the WriteFile has accepted, in order
  tree_pc,                 \* "idle", "new", "open", "finalized", "persist_failed",
                           \* "dropped", "failed", "panicked"
  vi_value,                \* the i64 handed to the writer (its eight bytes), or None
  vi_wire,                 \* bytes of the ReadVarint's stream not yet consumed
  vi_given,                \* the stream as it was before the reader ran
  vi_pv,                   \* protocol_version passed to read_server_statistics
  vi_result,               \* what the reader returned, or None before it ran
  vi_pc,                   \* "idle", "value", "wire", "stats", "read", "read_stats"
  hs_pc,                   \* byte-level handshake: "idle", "write_version", "read_version",
                           \* "read_seed", "connected", "failed", "panicked"
  hs_sent,                 \* every i32 passed to wv.write_i32, in order
  hs_wv,                   \* every byte the client has written to the server
  hs_rv,                   \* the bytes read from the server outside the DemuxRead
  hs_conn,                 \* the Connection handshake returned, or None
  hs_given,                \* the bytes that arrive from the server, from the first
  pp_list,                 \* phase 1 over pipes: the mode of each file-list entry
  pp_cap,                  \* capacity, in values, of the pipe to and from the server
  pp_req,                  \* values in the pipe from the client to the server
  pp_data,                 \* values in the pipe from the server to the client
  pp_gen,                  \* generate_files: its position, the next list position
                           \* and the values of its current writes not yet in the pipe
  pp_srv,                  \* the server: its position, the values read of the
                           \* current request and the values it has yet to write
  pp_rcv,                  \* the receiver thread: its position and its place in the record
  mx_pc,                   \* MuxWrite: "idle", "writing", "closed", "panicked"
  mx_chunks,               \* MuxWrite: the buffers passed to write(), in order
  mx_long                  \* MuxWrite: the length of a buffer too long to enumerate
                           \* that was passed to write() last, or None

connVars == << protocol_version, checksum_seed, list_only, demuxed >>
threadVars == << rpc, hasher, cur, records, local_tree, gpc, g_next >>
sessionVars == << pc, remote_protocol_version, protocol_version, checksum_seed,
                  list_only, child, wv, demuxed, out, inp,
                  file_list, summary, phase, rpc, hasher, cur,
                  records, local_tree, gpc, g_next >>

nameVars == << name, name_result >>
flistVars == << wire, flist_vec, decoded, flist_state, flist_sent >>
demuxVars == << r, current_packet_len, delivered, remote_log, frames, lost,
               demux_state >>

clientVars == << addr, client, args, conn_options, client_pc >>

treeVars == << tree_fs, lt_alive, wf, wf_before, wf_written, tree_pc >>

varintVars == << vi_value, vi_wire, vi_given, vi_pv, vi_result, vi_pc >>

hsVars == << hs_pc, hs_sent, hs_wv, hs_rv, hs_conn, hs_given >>

pipeVars == << pp_list, pp_cap, pp_req, pp_data, pp_gen, pp_srv, pp_rcv >>

muxVars == << mx_pc, mx_chunks, mx_long >>

vars == << sessionVars, nameVars, flistVars, demuxVars, clientVars, treeVars,
           varintVars, hsVars, pipeVars, muxVars >>

\* What the actions of one component leave alone.
exceptSession == << nameVars, flistVars, demuxVars, clientVars, treeVars,
  varintVars, hsVars, pipeVars, muxVars >>
exceptName == << sessionVars, flistVars, demuxVars, clientVars, treeVars,
  varintVars, hsVars, pipeVars, muxVars >>
exceptFlist == << sessionVars, nameVars, demuxVars, clientVars, treeVars,
  varintVars, hsVars, pipeVars, muxVars >>
exceptDemux == << sessionVars, nameVars, flistVars, clientVars, treeVars,
  varintVars, hsVars, pipeVars, muxVars >>
exceptClient == << sessionVars, nameVars, flistVars, demuxVars, treeVars,
  varintVars, hsVars, pipeVars, muxVars >>
exceptTree == << sessionVars, nameVars, flistVars, demuxVars, clientVars,
  varintVars, hsVars, pipeVars, muxVars >>
exceptVarint == << sessionVars, nameVars, flistVars, demuxVars, clientVars,
  treeVars, hsVars, pipeVars, muxVars >>
exceptPipes == << sessionVars, nameVars, flistVars, demuxVars, clientVars,
  treeVars, varintVars, hsVars, muxVars >>
\* MuxWrite writes the stream that DemuxRead reads.
exceptMux == << sessionVars, nameVars, flistVars, clientVars, treeVars,
  varintVars, hsVars, pipeVars >>
\* The byte-level handshake runs on the variables of DemuxRead as well.
exceptHandshake == << sessionVars, nameVars, flistVars, clientVars, treeVars,
  varintVars, pipeVars, muxVars >>

(***************************************************************************)
(* The server, as the session sees it.  Every read from the server yields  *)
(* a value or fails (an I/O error, an end of stream inside the value, or   *)
(* a fatal frame met by the demultiplexer); every write succeeds or fails. *)
(***************************************************************************)
\* Versions a server announces.
ServerVersions == {26, 27, 30}
\* Checksum seeds a server chooses.
ChecksumSeeds == {0, 258}
\* Soft-error counts a server reports after the file list.
IoErrorCounts == {0, 3}
\* Exit statuses of the child.
ExitStatuses == {0, 23}
\* Bytes of file contents.
ContentBytes == {0, 1}
\* What the server sends where the client expects a phase echo.
EchoValues == {-1, 0}

\* Names of a session's file list: position i holds the one-byte name
\* "a", "b", ... (read_file_list returns names in strictly ascending order).
SessionName(i) == << 96 + i >>

\* The file lists read_file_list returns to a session.
SessionFileLists ==
  UNION { { [ i \in 1..n |-> [name |-> SessionName(i), mode |-> m[i]] ] :
              m \in [1..n -> {ModeFile, ModeDir}] } : n \in 0..MaxFiles }

\* ServerStatistics::default() and Summary::default().
DefaultServerStatistics ==
  [ total_bytes_read |-> 0, total_bytes_written |-> 0, total_file_size |-> 0,
    flist_build_time |-> None, flist_xfer_time |-> None ]

DefaultSummary ==
  [ server_flist_io_error_count |-> 0,
    server_stats |-> DefaultServerStatistics,
    child_exit_status |-> None,
    invalid_file_index_count |-> 0,
    whole_file_sum_mismatch_count |-> 0,
    literal_bytes_received |-> 0,
    files_received |-> 0 ]

\* No record is being received.
NoRecord == [ idx |-> -1, t |-> 0, literals |-> <<>> ]

SessionInit ==
  /\ pc = "hs_write_version"
  /\ remote_protocol_version = 0
  /\ protocol_version = 0
  /\ checksum_seed = 0
  /\ list_only \in BOOLEAN
  /\ child = "running"
  /\ wv = "open"
  /\ demuxed = FALSE
  /\ out = <<>>
  /\ inp = <<>>
  /\ file_list = <<>>
  /\ summary = DefaultSummary
  /\ phase = 0
  /\ rpc = "idle"
  /\ hasher = <<>>
  /\ cur = NoRecord
  /\ records = <<>>
  /\ local_tree = {}
  /\ gpc = "idle"
  /\ g_next = 0

\* The session variables while another component is checked.
SessionIdle ==
  /\ pc = "idle"
  /\ remote_protocol_version = 0
  /\ protocol_version = 0
  /\ checksum_seed = 0
  /\ list_only = FALSE
  /\ child = "running"
  /\ wv = "open"
  /\ demuxed = FALSE
  /\ out = <<>>
  /\ inp = <<>>
  /\ file_list = <<>>
  /\ summary = DefaultSummary
  /\ phase = 0
  /\ rpc = "idle"
  /\ hasher = <<>>
  /\ cur = NoRecord
  /\ records = <<>>
  /\ local_tree = {}
  /\ gpc = "idle"
  /\ g_next = 0

\* The other components while a specification leaves them aside.
NameIdle ==
  /\ name = <<>>
  /\ name_result = "idle"

FlistIdle ==
  /\ wire = <<>>
  /\ flist_vec = <<>>
  /\ decoded = <<>>
  /\ flist_state = "idle"
  /\ flist_sent = <<>>

DemuxIdle ==
  /\ r = <<>>
  /\ current_packet_len = 0
  /\ delivered = <<>>
  /\ remote_log = <<>>
  /\ frames = <<>>
  /\ lost = 0
  /\ demux_state = "idle"

ClientIdle ==
  /\ addr = <<>>
  /\ client = None
  /\ args = <<>>
  /\ conn_options = None
  /\ client_pc = "idle"

TreeIdle ==
  /\ tree_fs = <<>>
  /\ lt_alive = FALSE
  /\ wf = None
  /\ wf_before = None
  /\ wf_written = <<>>
  /\ tree_pc = "idle"

VarintIdle ==
  /\ vi_value = None
  /\ vi_wire = <<>>
  /\ vi_given = <<>>
  /\ vi_pv = 0
  /\ vi_result = None
  /\ vi_pc = "idle"

HandshakeIdle ==
  /\ hs_pc = "idle"
  /\ hs_sent = <<>>
  /\ hs_wv = <<>>
  /\ hs_rv = <<>>
  /\ hs_conn = None
  /\ hs_given = <<>>

PipesIdle ==
  /\ pp_list = <<>>
  /\ pp_cap = << 0, 0 >>
  /\ pp_req = <<>>
  /\ pp_data = <<>>
  /\ pp_gen = [ pc |-> "idle", next |-> 0, buf |-> <<>> ]
  /\ pp_srv = [ pc |-> "idle", request |-> <<>>, buf |-> <<>> ]
  /\ pp_rcv = [ pc |-> "idle", pos |-> 0 ]

MuxIdle ==
  /\ mx_pc = "idle"
  /\ mx_chunks = <<>>
  /\ mx_long = None

Init ==
  /\ SessionInit
  /\ NameIdle
  /\ FlistIdle
  /\ DemuxIdle
  /\ ClientIdle
  /\ TreeIdle
  /\ VarintIdle
  /\ HandshakeIdle
  /\ PipesIdle
  /\ MuxIdle

\* A value dropped without child.wait(): std::process::Child's drop neither
\* kills nor reaps the process.
DropChild(c) == IF c = "running" THEN "dropped" ELSE c

\* The operation returns Err to its caller; the Connection (or, inside the
\* handshake, the two halves and the child) is dropped.
ReturnErr ==
  /\ pc' = "failed"
  /\ child' = DropChild(child)
  /\ wv' = "closed"

\* The thread that runs the operation panics and unwinds; nothing is
\* returned to the caller.
Panic ==
  /\ pc' = "panicked"
  /\ child' = DropChild(child)
  /\ wv' = "closed"

(***************************************************************************)
(* Connection::handshake                                                   *)
(***************************************************************************)
\* wv.write_i32(MY_PROTOCOL_VERSION)?
HandshakeWriteVersion ==
  /\ pc = "hs_write_version"
  /\ \/ /\ out' = Append(out, MY_PROTOCOL_VERSION)
        /\ pc' = "hs_read_version"
        /\ UNCHANGED << child, wv >>
     \/ /\ ReturnErr
        /\ UNCHANGED out
  /\ UNCHANGED << remote_protocol_version, connVars, inp, file_list, summary,
                  phase, threadVars >>
  /\ UNCHANGED exceptSession

\* Mutant of HandshakeReadVersion: the version is read and never compared
\* with MY_PROTOCOL_VERSION.
HandshakeReadVersion_NoCheck ==
  /\ pc = "hs_read_version"
  /\ \/ \E v \in ServerVersions :
          /\ inp' = Append(inp, "version")
          /\ remote_protocol_version' = v
          /\ pc' = "hs_read_seed"
          /\ UNCHANGED << child, wv >>
     \/ /\ Panic
        /\ UNCHANGED << inp, remote_protocol_version >>
  /\ UNCHANGED << connVars, out, file_list, summary, phase, threadVars >>
  /\ UNCHANGED exceptSession

\* rv.read_i32().unwrap() and the version check.
HandshakeReadVersion ==
  /\ pc = "hs_read_version"
  /\ \/ \E v \in ServerVersions :
          /\ inp' = Append(inp, "version")
          /\ remote_protocol_version' = v
          /\ IF v < MY_PROTOCOL_VERSION
               THEN ReturnErr    \* bail!("server protocol version {} is too old")
               ELSE /\ pc' = "hs_read_seed"
                    /\ UNCHANGED << child, wv >>
     \/ /\ Panic
        /\ UNCHANGED << inp, remote_protocol_version >>
  /\ UNCHANGED << connVars, out, file_list, summary, phase,
                  threadVars >>
  /\ UNCHANGED exceptSession

\* rv.read_i32().unwrap() of the checksum seed, the agreed version, the
\* DemuxRead wrapper and Ok(Connection { .. }).
HandshakeReadSeed ==
  /\ pc = "hs_read_seed"
  /\ \/ \E s \in ChecksumSeeds :
          /\ inp' = Append(inp, "seed")
          /\ checksum_seed' = s
          /\ protocol_version' = Min(MY_PROTOCOL_VERSION, remote_protocol_version)
          /\ demuxed' = TRUE
          /\ pc' = "connected"
          /\ UNCHANGED << child, wv >>
     \/ /\ Panic
        /\ UNCHANGED << inp, checksum_seed, protocol_version, demuxed >>
  /\ UNCHANGED << remote_protocol_version, list_only, out, file_list, summary,
                  phase, threadVars >>
  /\ UNCHANGED exceptSession

(***************************************************************************)
(* Connection::receive, on the thread of the caller                        *)
(***************************************************************************)
\* A phase loop that never looks at list_only.
PhaseEntry_IgnoresListOnly(p) == IF p = 1 THEN "receive_files" ELSE "phase_write"

\* The phase loop's branch: phase 1 of a download runs receive_files, every
\* other phase is a marker exchange.
PhaseEntry(p) == IF p = 1 /\ ~list_only THEN "receive_files" ELSE "phase_write"

\* send_empty_exclusions(&mut self.wv)?
SendEmptyExclusions ==
  /\ pc = "connected"
  /\ remote_protocol_version' = 0
  /\ \/ /\ out' = Append(out, 0)
        /\ pc' = "read_file_list"
        /\ UNCHANGED << child, wv >>
     \/ /\ ReturnErr
        /\ UNCHANGED out
  /\ UNCHANGED << connVars, inp, file_list, summary, phase,
                  threadVars >>
  /\ UNCHANGED exceptSession

\* read_file_list(&mut self.rv)?: the list, an error, or a panic inside
\* the decoder (SpecFlist models the decoder itself).
ReadFileList ==
  /\ pc = "read_file_list"
  /\ \/ \E fl \in SessionFileLists :
          /\ file_list' = fl
          /\ inp' = Append(inp, "file_list")
          /\ pc' = IF protocol_version < 30 THEN "read_io_error_count"
                   ELSE IF fl = <<>> THEN "check_for_eof"
                   ELSE "phase_start"
          /\ UNCHANGED << child, wv >>
     \/ /\ ReturnErr
        /\ UNCHANGED << file_list, inp >>
     \/ /\ Panic
        /\ UNCHANGED << file_list, inp >>
  /\ UNCHANGED << remote_protocol_version, connVars, out, summary, phase, threadVars >>
  /\ UNCHANGED exceptSession

\* Mutant of ReadIoErrorCount: the test for an empty list is missing and
\* the phases start whatever the list holds.
ReadIoErrorCount_NoEmptyTest ==
  /\ pc = "read_io_error_count"
  /\ \/ \E io_error_count \in IoErrorCounts :
          /\ inp' = Append(inp, "io_error_count")
          /\ summary' = [summary EXCEPT !.server_flist_io_error_count = io_error_count]
          /\ pc' = "phase_start"
          /\ UNCHANGED << child, wv >>
     \/ /\ ReturnErr
        /\ UNCHANGED << inp, summary >>
  /\ UNCHANGED << remote_protocol_version, connVars, out, file_list, phase,
                  threadVars >>
  /\ UNCHANGED exceptSession

\* A session that takes a positive soft-error count for an error.
ReadIoErrorCount_PositiveFails ==
  /\ pc = "read_io_error_count"
  /\ \/ \E io_error_count \in IoErrorCounts :
          /\ inp' = Append(inp, "io_error_count")
          /\ summary' = [summary EXCEPT !.server_flist_io_error_count = io_error_count]
          /\ IF io_error_count > 0
               THEN ReturnErr
               ELSE /\ pc' = IF file_list = <<>> THEN "check_for_eof" ELSE "phase_start"
                    /\ UNCHANGED << child, wv >>
     \/ /\ ReturnErr
        /\ UNCHANGED << inp, summary >>
  /\ UNCHANGED << remote_protocol_version, connVars, out, file_list, phase, threadVars >>
  /\ UNCHANGED exceptSession

\* The soft-error count, read when protocol_version < 30, and the test for
\* an empty list that follows it.
ReadIoErrorCount ==
  /\ pc = "read_io_error_count"
  /\ \/ \E io_error_count \in IoErrorCounts :
          /\ inp' = Append(inp, "io_error_count")
          /\ summary' = [summary EXCEPT !.server_flist_io_error_count = io_error_count]
          /\ pc' = IF file_list = <<>> THEN "check_for_eof" ELSE "phase_start"
          /\ UNCHANGED << child, wv >>
     \/ /\ ReturnErr
        /\ UNCHANGED << inp, summary >>
  /\ UNCHANGED << remote_protocol_version, connVars, out, file_list, phase, threadVars >>
  /\ UNCHANGED exceptSession

\* Entry of `for phase in 1..=max_phase` with phase = 1.
PhaseStart ==
  /\ pc = "phase_start"
  /\ phase' = 1
  /\ pc' = PhaseEntry(1)
  /\ UNCHANGED << remote_protocol_version, connVars, child, wv, out, inp,
                  file_list, summary, threadVars >>
  /\ UNCHANGED exceptSession

\* The end of one pass of the phase loop: the next phase, or the code after
\* the loop.
AfterPhase ==
  IF phase < 2
    THEN /\ phase' = phase + 1
         /\ pc' = PhaseEntry(phase + 1)
    ELSE /\ pc' = "send_end_of_sequence"
         /\ UNCHANGED phase

\* Mutant of PhaseWrite: the marker is written and the next phase starts
\* without the server's echo being read.
PhaseWrite_NoEcho ==
  /\ pc = "phase_write"
  /\ \/ /\ out' = Append(out, -1)
        /\ AfterPhase
        /\ UNCHANGED << child, wv >>
     \/ /\ ReturnErr
        /\ UNCHANGED << out, phase >>
  /\ UNCHANGED << remote_protocol_version, connVars, inp, file_list, summary,
                  threadVars >>
  /\ UNCHANGED exceptSession

\* self.wv.write_i32(-1).context("Failed to send phase transition")?
PhaseWrite ==
  /\ pc = "phase_write"
  /\ \/ /\ out' = Append(out, -1)
        /\ pc' = "phase_read"
        /\ UNCHANGED << child, wv >>
     \/ /\ ReturnErr
        /\ UNCHANGED out
  /\ UNCHANGED << remote_protocol_version, connVars, inp, file_list, summary,
                  phase, threadVars >>
  /\ UNCHANGED exceptSession

\* assert_eq!(self.rv.read_i32()?, -1)
PhaseRead ==
  /\ pc = "phase_read"
  /\ \/ \E v \in EchoValues :
          /\ inp' = Append(inp, IF phase = 1 THEN "echo1" ELSE "echo2")
          /\ IF v = -1
               THEN AfterPhase /\ UNCHANGED << child, wv >>
               ELSE Panic /\ UNCHANGED phase
     \/ /\ ReturnErr
        /\ UNCHANGED << inp, phase >>
  /\ UNCHANGED << remote_protocol_version, connVars, out, file_list, summary, threadVars >>
  /\ UNCHANGED exceptSession

\* self.wv.write_i32(-1).context("Failed to send end-of-sequence marker")?
SendEndOfSequence ==
  /\ pc = "send_end_of_sequence"
  /\ \/ /\ out' = Append(out, -1)
        /\ pc' = "read_server_statistics"
        /\ UNCHANGED << child, wv >>
     \/ /\ ReturnErr
        /\ UNCHANGED out
  /\ UNCHANGED << remote_protocol_version, connVars, inp, file_list, summary,
                  phase, threadVars >>
  /\ UNCHANGED exceptSession

\* How many i64 values read_server_statistics reads.
StatisticsCount(pv) == IF pv >= 29 THEN 5 ELSE 3

\* The ServerStatistics built from the values read.
MakeServerStatistics(acc, pv) ==
  [ total_bytes_read |-> acc[1], total_bytes_written |-> acc[2],
    total_file_size |-> acc[3],
    flist_build_time |-> IF pv >= 29 THEN Some(acc[4]) ELSE None,
    flist_xfer_time |-> IF pv >= 29 THEN Some(acc[5]) ELSE None ]

\* The values the server sends as its statistics: all zero, or a different
\* value in every position.
ServerStatValues(pv) == { [ i \in 1 .. StatisticsCount(pv) |-> 0 ],
                          [ i \in 1 .. StatisticsCount(pv) |-> 10 + i ] }

\* read_server_statistics(&mut self.rv, self.protocol_version): every
\* rv.read_i64()? in order, and the struct stored in summary.server_stats.
\* A failed read returns Err after the reads before it.
ReadServerStatistics ==
  /\ pc = "read_server_statistics"
  /\ \/ \E acc \in ServerStatValues(protocol_version) :
          /\ inp' = inp \o [ i \in 1 .. Len(acc) |-> "stat" ]
          /\ summary' = [summary EXCEPT !.server_stats =
                            MakeServerStatistics(acc, protocol_version)]
          /\ pc' = "check_for_eof"
          /\ UNCHANGED << child, wv >>
     \/ \E k \in 0 .. StatisticsCount(protocol_version) - 1 :
          /\ inp' = inp \o [ i \in 1 .. k |-> "stat" ]
          /\ ReturnErr
          /\ UNCHANGED summary
  /\ UNCHANGED << remote_protocol_version, connVars, out, file_list, phase, threadVars >>
  /\ UNCHANGED exceptSession

(***************************************************************************)
(* Connection::shutdown                                                    *)
(***************************************************************************)
\* rv.check_for_eof() that lets a data byte pass.
CheckForEof_AcceptData ==
  /\ pc = "check_for_eof"
  /\ \/ /\ inp' = Append(inp, "eof")
        /\ pc' = "drop_wv"
        /\ UNCHANGED << child, wv >>
     \/ /\ inp' = Append(inp, "data")
        /\ pc' = "drop_wv"
        /\ UNCHANGED << child, wv >>
     \/ /\ ReturnErr
        /\ UNCHANGED inp
  /\ UNCHANGED << remote_protocol_version, connVars, out, file_list, summary,
                  phase, threadVars >>
  /\ UNCHANGED exceptSession

\* rv.check_for_eof()?: Ok on a clean end of stream, Err on a data byte or
\* on any other I/O error.
CheckForEof ==
  /\ pc = "check_for_eof"
  /\ \/ /\ inp' = Append(inp, "eof")
        /\ pc' = "drop_wv"
        /\ UNCHANGED << child, wv >>
     \/ /\ inp' = Append(inp, "data")
        /\ ReturnErr
     \/ /\ ReturnErr
        /\ UNCHANGED inp
  /\ UNCHANGED << remote_protocol_version, connVars, out, file_list, summary,
                  phase, threadVars >>
  /\ UNCHANGED exceptSession

\* drop(wv)
DropWv ==
  /\ pc = "drop_wv"
  /\ wv' = "closed"
  /\ pc' = "child_wait"
  /\ UNCHANGED << remote_protocol_version, connVars, child, out, inp,
                  file_list, summary, phase, threadVars >>
  /\ UNCHANGED exceptSession

\* child.wait()? and summary.child_exit_status = Some(..); shutdown returns
\* Ok(()) and receive returns Ok((file_list, summary)).
ChildWait ==
  /\ pc = "child_wait"
  /\ \/ \E st \in ExitStatuses :
          /\ child' = "waited"
          /\ summary' = [summary EXCEPT !.child_exit_status = Some(st)]
          /\ pc' = "done"
          /\ UNCHANGED wv
     \/ /\ ReturnErr
        /\ UNCHANGED summary
  /\ UNCHANGED << remote_protocol_version, connVars, out, inp, file_list,
                  phase, threadVars >>
  /\ UNCHANGED exceptSession

(***************************************************************************)
(* Connection::receive_files: phase 1 of a download                        *)
(***************************************************************************)
mainVars == << pc, remote_protocol_version, child, wv, phase >>

\* Indices the server sends where the receiver expects a file index: the
\* end-of-phase marker, another negative value, every position of the
\* longest list and one beyond it.
ServerIndexes == -2 .. MaxFiles

\* Tokens the server sends: a block reference, the end of the file and
\* literal chunk lengths.
ServerTokens == -1 .. MaxToken

\* `remote_idx as usize`: a negative i32 wraps to a value of at least 2^31
\* beyond every list length; the model keeps its low 31 bits above 2^30.
AsUsize(v) == IF v < 0 THEN (v + 2147483647) + 1 ELSE v

\* thread::scope: the receiver thread is spawned and generate_files starts
\* on the calling thread.
ReceiveFiles ==
  /\ pc = "receive_files"
  /\ \/ /\ pc' = "scope"
        /\ rpc' = "read_idx"
        /\ gpc' = "running"
        /\ g_next' = 1
        /\ UNCHANGED << child, wv >>
     \/ \* .expect("Failed to spawn receiver thread")
        /\ Panic
        /\ UNCHANGED << rpc, gpc, g_next >>
  /\ UNCHANGED << remote_protocol_version, connVars, out, inp, file_list,
                  summary, phase, hasher, cur, records, local_tree >>
  /\ UNCHANGED exceptSession

\* A filter that lets every entry through.
FilesFrom_All(from) == from .. Len(file_list)

\* Positions at or after `from` that hold a regular file.
FilesFrom(from) == { i \in from..Len(file_list) : is_file(file_list[i].mode) }

\* The smallest element of a non-empty set of integers.
Least(S) == CHOOSE x \in S : \A y \in S : x <= y

\* SumHead::zero().write(wv): count, blength, s2length, remainder.
SumHeadZero == << 0, 0, 0, 0 >>

\* The first k elements of a sequence.
Take(seq, k) == SubSeq(seq, 1, k)

\* A generator that shares the summary: each request is counted in
\* files_received when it is written.
GenerateFiles_TouchesSummary ==
  /\ gpc = "running"
  /\ IF FilesFrom(g_next) # {}
       THEN LET i == Least(FilesFrom(g_next))
                request == << i - 1 >> \o SumHeadZero
            IN  \/ /\ out' = out \o request
                   /\ g_next' = i + 1
                   /\ summary' = [summary EXCEPT !.files_received = @ + 1]
                   /\ UNCHANGED gpc
                \/ \E k \in 0 .. Len(request) - 1 :
                     /\ out' = out \o Take(request, k)
                     /\ gpc' = "panicked"
                     /\ UNCHANGED << g_next, summary >>
       ELSE \/ /\ out' = Append(out, -1)
               /\ gpc' = "ok"
               /\ UNCHANGED << g_next, summary >>
            \/ /\ gpc' = "panicked"
               /\ UNCHANGED << out, g_next, summary >>
  /\ UNCHANGED << mainVars, connVars, inp, file_list, rpc, hasher,
                  cur, records, local_tree >>
  /\ UNCHANGED exceptSession

\* generate_files: one pass of the loop over the regular files (the index
\* and an empty SumHead), or the phase marker after the loop.  A failed
\* write makes generate_files return Err, which receive_files unwraps.
GenerateFiles ==
  /\ gpc = "running"
  /\ IF FilesFrom(g_next) # {}
       THEN LET i == Least(FilesFrom(g_next))
                request == << i - 1 >> \o SumHeadZero
            IN  \/ /\ out' = out \o request
                   /\ g_next' = i + 1
                   /\ UNCHANGED gpc
                \/ \E k \in 0 .. Len(request) - 1 :
                     /\ out' = out \o Take(request, k)
                     /\ gpc' = "panicked"
                     /\ UNCHANGED g_next
       ELSE \/ /\ out' = Append(out, -1)
               /\ gpc' = "ok"
               /\ UNCHANGED g_next
            \/ /\ gpc' = "panicked"
               /\ UNCHANGED << out, g_next >>
  /\ UNCHANGED << mainVars, connVars, inp, file_list, summary, rpc, hasher,
                  cur, records, local_tree >>
  /\ UNCHANGED exceptSession

\* The receiver thread ends with Err or with a panic: the locals of
\* receive_file go out of scope.
ReceiverEnds(how) ==
  /\ rpc' = how
  /\ cur' = NoRecord
  /\ hasher' = <<>>

\* receive_offered_files: rv.read_i32()? of the next index, the end-of-phase
\* test and the range check.  An index out of range is counted and then
\* used in file_list[idx], which panics.
ReceiveOfferedFiles ==
  /\ rpc = "read_idx"
  /\ \/ \E remote_idx \in ServerIndexes :
          /\ remote_idx # -1 => Len(records) < MaxRecords
          /\ IF remote_idx = -1
               THEN /\ rpc' = "ok"
                    /\ UNCHANGED << summary, cur >>
               ELSE IF AsUsize(remote_idx) >= Len(file_list)
                 THEN /\ summary' = [summary EXCEPT !.invalid_file_index_count = @ + 1]
                      /\ rpc' = "panicked"
                      /\ UNCHANGED cur
                 ELSE /\ cur' = [ idx |-> remote_idx, t |-> 0, literals |-> <<>> ]
                      /\ rpc' = "read_sums"
                      /\ UNCHANGED summary
     \/ /\ rpc' = "err"
        /\ UNCHANGED << summary, cur >>
  /\ UNCHANGED << mainVars, connVars, out, inp, file_list, hasher, records,
                  local_tree, gpc, g_next >>
  /\ UNCHANGED exceptSession

\* Mutant of ReceiveFileSums: the hasher is not seeded with the bytes of
\* the checksum seed.
ReceiveFileSums_Unseeded ==
  /\ rpc = "read_sums"
  /\ \/ /\ hasher' = <<>>
        /\ rpc' = "read_token"
        /\ UNCHANGED cur
     \/ ReceiverEnds("err")
  /\ UNCHANGED << mainVars, connVars, out, inp, file_list, summary, records,
                  local_tree, gpc, g_next >>
  /\ UNCHANGED exceptSession

\* receive_file: SumHead::read(rv)?, Md4::new() and
\* hasher.input(checksum_seed.to_le_bytes()).
ReceiveFileSums ==
  /\ rpc = "read_sums"
  /\ \/ /\ hasher' = ToLeBytes32(checksum_seed)
        /\ rpc' = "read_token"
        /\ UNCHANGED cur
     \/ ReceiverEnds("err")
  /\ UNCHANGED << mainVars, connVars, out, inp, file_list, summary, records,
                  local_tree, gpc, g_next >>
  /\ UNCHANGED exceptSession

\* receive_file: let t = rv.read_i32()? and the three-way branch on it.
ReceiveFileToken ==
  /\ rpc = "read_token"
  /\ \/ \E t \in ServerTokens :
          /\ t > 0 => summary.literal_bytes_received + t <= MaxLiteralBytes
          /\ IF t = 0
               THEN /\ rpc' = "read_md4"
                    /\ UNCHANGED << cur, hasher >>
               ELSE IF t < 0
                 THEN ReceiverEnds("panicked")   \* todo!("Block copy reference")
                 ELSE /\ rpc' = "read_literal"
                      /\ cur' = [cur EXCEPT !.t = t]
                      /\ UNCHANGED hasher
     \/ ReceiverEnds("err")
  /\ UNCHANGED << mainVars, connVars, out, inp, file_list, summary, records,
                  local_tree, gpc, g_next >>
  /\ UNCHANGED exceptSession

\* receive_file: rv.read_byte_string(t)?, the literal byte count and
\* hasher.input(content).  Nothing is written to the local tree.
ReceiveFileLiteral ==
  /\ rpc = "read_literal"
  /\ \/ \E content \in [1 .. cur.t -> ContentBytes] :
          /\ summary' = [summary EXCEPT !.literal_bytes_received = @ + Len(content)]
          /\ hasher' = hasher \o content
          /\ cur' = [cur EXCEPT !.literals = @ \o content, !.t = 0]
          /\ rpc' = "read_token"
     \/ /\ ReceiverEnds("err")
        /\ UNCHANGED summary
  /\ UNCHANGED << mainVars, connVars, out, inp, file_list, records, local_tree,
                  gpc, g_next >>
  /\ UNCHANGED exceptSession

\* Digests the server sends for the record being received: the digest of
\* the seeded content and the digest of the unseeded content.
ServerDigests == { Md4Result(ToLeBytes32(checksum_seed) \o cur.literals),
                   Md4Result(cur.literals) }

\* A receiver that counts a file once, however often its index arrives.
ReceiveFileMd4_CountsOnce ==
  /\ rpc = "read_md4"
  /\ \/ \E remote_md4 \in ServerDigests :
          LET local_md4 == Md4Result(hasher) IN
          /\ summary' = [summary EXCEPT
               !.whole_file_sum_mismatch_count =
                   IF local_md4 # remote_md4 THEN @ + 1 ELSE @,
               !.files_received =
                   IF \E i \in DOMAIN records : records[i].idx = cur.idx
                     THEN @ ELSE @ + 1]
          /\ records' = Append(records, [ idx |-> cur.idx, literals |-> cur.literals,
                                          remote_md4 |-> remote_md4 ])
          /\ cur' = NoRecord
          /\ hasher' = <<>>
          /\ rpc' = "read_idx"
     \/ /\ ReceiverEnds("err")
        /\ UNCHANGED << summary, records >>
  /\ UNCHANGED << mainVars, connVars, out, inp, file_list, local_tree, gpc, g_next >>
  /\ UNCHANGED exceptSession

\* receive_file: rv.read_byte_string(MD4_SUM_LENGTH)?, the comparison with
\* hasher.result(); then summary.files_received += 1 in the caller's loop.
ReceiveFileMd4 ==
  /\ rpc = "read_md4"
  /\ \/ \E remote_md4 \in ServerDigests :
          LET local_md4 == Md4Result(hasher) IN
          /\ summary' = [summary EXCEPT
               !.whole_file_sum_mismatch_count =
                   IF local_md4 # remote_md4 THEN @ + 1 ELSE @,
               !.files_received = @ + 1]
          /\ records' = Append(records, [ idx |-> cur.idx, literals |-> cur.literals,
                                          remote_md4 |-> remote_md4 ])
          /\ cur' = NoRecord
          /\ hasher' = <<>>
          /\ rpc' = "read_idx"
     \/ /\ ReceiverEnds("err")
        /\ UNCHANGED << summary, records >>
  /\ UNCHANGED << mainVars, connVars, out, inp, file_list, local_tree, gpc, g_next >>
  /\ UNCHANGED exceptSession

\* A scope whose result is not unwrapped: a panic of the receiver thread is
\* dropped like its Result.
ScopeJoin_DropsReceiverPanic ==
  /\ pc = "scope"
  /\ gpc \in {"ok", "panicked"}
  /\ rpc \in {"ok", "err", "panicked"}
  /\ IF gpc = "panicked"
       THEN Panic /\ UNCHANGED phase
       ELSE AfterPhase /\ UNCHANGED << child, wv >>
  /\ UNCHANGED << remote_protocol_version, connVars, out, inp, file_list,
                  summary, threadVars >>
  /\ UNCHANGED exceptSession

\* The end of thread::scope, once generate_files has returned and the
\* receiver thread has ended.  A panic of generate_files' unwrap is resumed;
\* a panic of the receiver thread makes scope return Err, which is
\* unwrapped; the Result the receiver thread returned is dropped with
\* its join handle, and receive_files returns Ok(()).
ScopeJoin ==
  /\ pc = "scope"
  /\ gpc \in {"ok", "panicked"}
  /\ rpc \in {"ok", "err", "panicked"}
  /\ IF gpc = "panicked" \/ rpc = "panicked"
       THEN Panic /\ UNCHANGED phase
       ELSE AfterPhase /\ UNCHANGED << child, wv >>
  /\ UNCHANGED << remote_protocol_version, connVars, out, inp, file_list,
                  summary, threadVars >>
  /\ UNCHANGED exceptSession

(***************************************************************************)
(* The session.                                                            *)
(***************************************************************************)
Next ==
  \/ HandshakeWriteVersion
  \/ HandshakeReadVersion
  \/ HandshakeReadSeed
  \/ SendEmptyExclusions
  \/ ReadFileList
  \/ ReadIoErrorCount
  \/ PhaseStart
  \/ PhaseWrite
  \/ PhaseRead
  \/ SendEndOfSequence
  \/ ReadServerStatistics
  \/ CheckForEof
  \/ DropWv
  \/ ChildWait
  \/ ReceiveFiles
  \/ GenerateFiles
  \/ ReceiveOfferedFiles
  \/ ReceiveFileSums
  \/ ReceiveFileToken
  \/ ReceiveFileLiteral
  \/ ReceiveFileMd4
  \/ ScopeJoin

Spec == Init /\ [][Next]_vars

(***************************************************************************)
(* Properties of the session.                                              *)
(***************************************************************************)
\* Whether x occurs in seq, and how often.
Has(seq, x) == \E i \in DOMAIN seq : seq[i] = x
Count(seq, x) == Cardinality({ i \in DOMAIN seq : seq[i] = x })

\* Whether p is a prefix of q.
IsPrefix(p, q) == Len(p) <= Len(q) /\ \A i \in DOMAIN p : p[i] = q[i]

\* The -1 values written so far: phase-1 terminator or marker, phase-2
\* marker, end of sequence (a file index is never negative).
Markers == Count(out, -1)

\* The whole output of a list-only session over a non-empty list.
ListOnlyOutput == << MY_PROTOCOL_VERSION, 0, -1, -1, -1 >>

\* C1 (as claimed): in a download, once a file's record has been consumed,
\* the local tree holds for that file the concatenation of the record's
\* literal payloads.
C1_LiteralsReachLocalTree ==
  ~list_only =>
    \A i \in DOMAIN records :
      records[i].literals # <<>> =>
        \E f \in local_tree :
          /\ f.name = file_list[records[i].idx + 1].name
          /\ f.content = records[i].literals

\* C4: nothing beyond the version and the exclusion-list length is written
\* before the file list and the soft-error count were read; the second
\* marker is written only after phase 1 is over (its echo read, or both
\* threads ended), the end-of-sequence marker only after the phase-2 echo
\* was read, the statistics are read only after end of sequence; a
\* list-only session writes 27, 0, -1, -1, -1 and nothing else.
C4_PhaseOrder ==
  /\ IsPrefix(Take(out, Min(Len(out), 2)), ListOnlyOutput)
  /\ Len(out) > 2 => Has(inp, "file_list") /\ Has(inp, "io_error_count")
  /\ Has(inp, "echo1") => Markers >= 1
  /\ Markers >= 2 =>
       IF list_only THEN Has(inp, "echo1")
       ELSE gpc = "ok" /\ rpc \in {"ok", "err"}
  /\ Has(inp, "echo2") => Markers >= 2
  /\ Markers >= 3 => Has(inp, "echo2")
  /\ Has(inp, "stat") => Markers >= 3
  /\ list_only => IsPrefix(out, ListOnlyOutput)
  /\ (list_only /\ pc = "done" /\ file_list # <<>>) => out = ListOnlyOutput

C4_Witness ==
  /\ pc = "done"
  /\ list_only
  /\ file_list # <<>>
  /\ out = ListOnlyOutput
  /\ inp = << "version", "seed", "file_list", "io_error_count", "echo1", "echo2",
              "stat", "stat", "stat", "eof" >>

\* C5: a server version below 27 makes the handshake fail with no
\* Connection built; a Connection that is built stores min(27, server
\* version) as the agreed version, which is at least 27.
C5_HandshakeVersion ==
  /\ (remote_protocol_version # 0 /\ remote_protocol_version < MY_PROTOCOL_VERSION) =>
       pc = "failed" /\ ~demuxed /\ protocol_version = 0
  /\ pc = "connected" =>
       /\ protocol_version = Min(MY_PROTOCOL_VERSION, remote_protocol_version)
       /\ protocol_version >= 27
  /\ demuxed => protocol_version >= 27

C5_Witness ==
  /\ pc = "connected"
  /\ remote_protocol_version = 30
  /\ protocol_version = 27

\* C6: once the list is decoded and empty, nothing is written after the
\* exclusion-list length, no phase echo and no statistics are read, the
\* session is in the soft-error read or in shutdown, and it returns with
\* the default statistics after the EOF check and the child wait.
C6_EmptyListShortCircuit ==
  (Has(inp, "file_list") /\ file_list = <<>>) =>
    /\ out = << MY_PROTOCOL_VERSION, 0 >>
    /\ ~Has(inp, "stat") /\ ~Has(inp, "echo1") /\ ~Has(inp, "echo2")
    /\ summary.server_stats = DefaultServerStatistics
    /\ pc \in {"read_io_error_count", "check_for_eof", "drop_wv", "child_wait",
               "done", "failed"}
    /\ pc = "done" =>
         /\ inp = << "version", "seed", "file_list", "io_error_count", "eof" >>
         /\ child = "waited"
         /\ summary.child_exit_status # None

C6_Witness ==
  /\ pc = "done"
  /\ Has(inp, "file_list")
  /\ file_list = <<>>
  /\ summary.server_stats = DefaultServerStatistics

\* The completed records whose digest differs from the hash of the seed's
\* little-endian bytes followed by the record's literal payloads.
MismatchedRecords ==
  { i \in DOMAIN records :
      records[i].remote_md4 # Md4Result(ToLeBytes32(checksum_seed) \o records[i].literals) }

\* C8: whole_file_sum_mismatch_count counts exactly the records whose
\* digest differs from the seeded hash of their literals, files_received
\* counts every record, mismatched or not, and the step that reads a digest
\* leaves the receiver at the read of the next index.
C8_MismatchCounted ==
  /\ [](/\ summary.whole_file_sum_mismatch_count = Cardinality(MismatchedRecords)
        /\ summary.files_received = Len(records))
  /\ [][ records' # records =>
           /\ rpc' = "read_idx"
           /\ pc' = pc
           /\ summary'.files_received = summary.files_received + 1 ]_vars

C8_Witness ==
  /\ Len(records) = 2
  /\ MismatchedRecords = {1}
  /\ summary.whole_file_sum_mismatch_count = 1
  /\ summary.files_received = 2

\* C9 (as claimed): once the receiver has ended with an error, or the
\* generator has failed to write, the session never continues into phase 2
\* and never returns Ok.
C9_Phase1ErrorFailsSession ==
  (rpc = "err" \/ gpc = "panicked") =>
    pc \notin {"phase_write", "phase_read", "send_end_of_sequence",
               "read_server_statistics", "check_for_eof", "drop_wv",
               "child_wait", "done"}

\* C10 (as claimed): whenever the operation has returned an error, the
\* child has been waited for.
C10_ChildReapedOnError ==
  pc = "failed" => child = "waited"


(***************************************************************************)
(* validate_name (src/src/flist.rs), checked on its own: SpecName.         *)
(***************************************************************************)

\* Longest generated name.
MaxNameLen == 4

Slash == 47
Dot == 46

\* The position of the first '/' in s, or 0.
FirstSlash(s) ==
  IF \E i \in DOMAIN s : s[i] = Slash
    THEN CHOOSE i \in DOMAIN s : s[i] = Slash /\ \A j \in 1..(i - 1) : s[j] # Slash
    ELSE 0

\* name.split(|b| *b == b'/'): the parts between separators; an empty slice
\* has one empty part and a trailing separator leaves an empty last part.
RECURSIVE SplitSlash(_)
SplitSlash(s) ==
  LET i == FirstSlash(s) IN
    IF i = 0
      THEN << s >>
      ELSE << SubSeq(s, 1, i - 1) >> \o SplitSlash(SubSeq(s, i + 1, Len(s)))

\* validate_name without the test for "..".
validate_name_NoDotDot(n) ==
  IF n = <<>> THEN "empty"
  ELSE IF n[1] = Slash THEN "absolute"
  ELSE IF \E k \in DOMAIN SplitSlash(n) : SplitSlash(n)[k] = <<>>
    THEN "unsafe"
  ELSE "ok"

\* validate_name: "ok" for Ok(()), otherwise which bail! was taken.
validate_name(n) ==
  IF n = <<>> THEN "empty"
  ELSE IF n[1] = Slash THEN "absolute"
  ELSE IF \E k \in DOMAIN SplitSlash(n) :
            SplitSlash(n)[k] = <<>> \/ SplitSlash(n)[k] = << Dot, Dot >>
    THEN "unsafe"
  ELSE "ok"

\* The names of test::validate_name.
NameDot == << 46 >>
NameDotOk == << 46, 47, 111, 107 >>
NameEasy == << 101, 97, 115, 121 >>
NameNaughty == << 46, 46, 47, 46, 46, 47, 110, 97, 117, 103, 104, 116, 121 >>
NameStillNotOk ==
  << 115, 116, 105, 108, 108, 47, 110, 111, 116, 47, 46, 46, 47, 111, 107 >>

TestNames == { NameDot, NameDotOk, NameEasy, NameNaughty, NameStillNotOk }

NameBytes == { Slash, Dot, 97 }

GeneratedNames == UNION { [1..n -> NameBytes] : n \in 0..MaxNameLen }

InitName ==
  /\ SessionIdle
  /\ FlistIdle
  /\ DemuxIdle
  /\ ClientIdle
  /\ TreeIdle
  /\ VarintIdle
  /\ HandshakeIdle
  /\ PipesIdle
  /\ MuxIdle
  /\ name \in GeneratedNames \cup TestNames
  /\ name_result = "none"

ValidateName ==
  /\ name_result = "none"
  /\ name_result' = validate_name(name)
  /\ UNCHANGED << name, exceptName >>

NextName ==
  \/ ValidateName

SpecName == InitName /\ [][NextName]_vars

\* A '/'-separated segment of n occupies positions i..j (empty when j = i-1):
\* it starts at the beginning or just after a '/', ends at the end or just
\* before a '/', and holds no '/'.
IsSegment(n, i, j) ==
  /\ i \in 1..(Len(n) + 1)
  /\ j \in (i - 1)..Len(n)
  /\ i = 1 \/ n[i - 1] = Slash
  /\ j = Len(n) \/ n[j + 1] = Slash
  /\ \A k \in i..j : n[k] # Slash

HasBadSegment(n) ==
  \E i \in 1..(Len(n) + 1) : \E j \in (i - 1)..Len(n) :
    /\ IsSegment(n, i, j)
    /\ \/ j = i - 1
       \/ j = i + 1 /\ n[i] = Dot /\ n[j] = Dot

\* C3: validate_name rejects a byte string exactly when it is empty, or begins
\* with '/', or has a '/'-separated segment that is empty or equal to "..";
\* every other byte string, among them ".", "./ok" and "easy", is accepted.
C3_ValidateNameExact ==
  name_result \notin { "idle", "none" } =>
    /\ name_result # "ok" <=>
         \/ name = <<>>
         \/ name # <<>> /\ name[1] = Slash
         \/ HasBadSegment(name)
    /\ name \in { NameDot, NameDotOk, NameEasy } => name_result = "ok"

\* validate_name has accepted "./ok", whose first segment is ".".
C3_Witness ==
  /\ name = NameDotOk
  /\ name_result = "ok"


(***************************************************************************)
(* read_file_list (src/src/flist.rs) over ReadVarint (src/src/varint.rs),  *)
(* checked on its own, byte by byte: SpecFlist.                            *)
(***************************************************************************)

\* Most entries in a generated file list.
MaxEntries == 3
\* Most bytes cut from the end of a generated stream.
MaxCut == 2

STATUS_REPEAT_MODE == 2
STATUS_REPEAT_PARTIAL_NAME == 32
STATUS_LONG_NAME == 64
STATUS_REPEAT_MTIME == 128

\* status & mask != 0, for a mask of one bit.
StatusHas(status, mask) == (status \div mask) % 2 = 1

\* r.read_exact(&mut buf) on the remaining bytes w: the n bytes and what is
\* left, or an UnexpectedEof error.
ReadExact(w, n) ==
  IF Len(w) >= n
    THEN [ok |-> TRUE, v |-> SubSeq(w, 1, n), rest |-> SubSeq(w, n + 1, Len(w))]
    ELSE [ok |-> FALSE, v |-> <<>>, rest |-> <<>>]

\* i32::from_le_bytes.
FromLeBytes32(b) ==
  b[1] + 256 * b[2] + 65536 * b[3]
    + 16777216 * (IF b[4] >= 128 THEN b[4] - 256 ELSE b[4])

read_u8(w) ==
  LET x == ReadExact(w, 1) IN
    IF x.ok THEN [ok |-> TRUE, v |-> x.v[1], rest |-> x.rest] ELSE x

read_byte_string(w, len) == ReadExact(w, len)

read_i32(w) ==
  LET x == ReadExact(w, 4) IN
    IF x.ok THEN [ok |-> TRUE, v |-> FromLeBytes32(x.v), rest |-> x.rest] ELSE x

\* `v as i64` that leaves the upper half zero.
I32AsI64_ZeroExtend(v) == ToLeBytes32(v) \o << 0, 0, 0, 0 >>

\* An i64 is held as its eight little-endian bytes.  `v as i64` extends the
\* sign of the i32.
I32AsI64(v) ==
  ToLeBytes32(v) \o (IF v < 0 THEN << 255, 255, 255, 255 >> ELSE << 0, 0, 0, 0 >>)

\* read_i64 that takes every first word as the value.
read_i64_NoSentinel(w) ==
  LET x == read_i32(w) IN
    IF ~x.ok THEN x
    ELSE [ok |-> TRUE, v |-> I32AsI64(x.v), rest |-> x.rest]

read_i64(w) ==
  LET x == read_i32(w) IN
    IF ~x.ok THEN x
    ELSE IF x.v # -1 THEN [ok |-> TRUE, v |-> I32AsI64(x.v), rest |-> x.rest]
    ELSE ReadExact(x.rest, 8)

\* try_into::<u64>() that refuses nothing.
IsNegativeI64_Never(b) == FALSE

\* An i64 that try_into::<u64>() refuses.
IsNegativeI64(b) == b[8] >= 128

\* Vec::truncate: no effect when the vector is already shorter.
Truncate(v, n) == IF n < Len(v) THEN SubSeq(v, 1, n) ELSE v

NoEntry == [name |-> <<>>, file_len |-> <<>>, mtime |-> <<>>, mode |-> <<>>,
            link_target |-> None]

EntryErr == [kind |-> "err", entry |-> NoEntry, rest |-> <<>>]
EntryPanic == [kind |-> "panic", entry |-> NoEntry, rest |-> <<>>]

\* The tail of receive_file_entry, from read_i64 for file_len onwards.
ReceiveFileEntryFields(status, full, w, previous) ==
  LET fl == read_i64(w) IN
  IF ~fl.ok \/ IsNegativeI64(fl.v) THEN EntryErr
  ELSE
  LET mt == IF ~StatusHas(status, STATUS_REPEAT_MTIME)
              THEN read_i32(fl.rest)
              ELSE [ok |-> TRUE, v |-> 0, rest |-> fl.rest] IN
  IF ~mt.ok THEN EntryErr
  ELSE IF StatusHas(status, STATUS_REPEAT_MTIME) /\ previous = None THEN EntryPanic
  ELSE
  LET md == IF ~StatusHas(status, STATUS_REPEAT_MODE)
              THEN read_i32(mt.rest)
              ELSE [ok |-> TRUE, v |-> 0, rest |-> mt.rest] IN
  IF ~md.ok THEN EntryErr
  ELSE IF StatusHas(status, STATUS_REPEAT_MODE) /\ previous = None THEN EntryPanic
  ELSE
    [kind |-> "entry",
     entry |-> [name |-> full,
                file_len |-> fl.v,
                mtime |-> IF StatusHas(status, STATUS_REPEAT_MTIME)
                            THEN previous[1].mtime ELSE ToLeBytes32(mt.v),
                mode |-> IF StatusHas(status, STATUS_REPEAT_MODE)
                           THEN previous[1].mode ELSE ToLeBytes32(md.v),
                link_target |-> None],
     rest |-> md.rest]

\* receive_file_entry: "none" for Ok(None), "entry" for Ok(Some(entry)),
\* "err" for Err, "panic" for unwrap on no previous entry, the assertion on
\* an empty name, and a name length that no Vec can have.
receive_file_entry(w, previous) ==
  LET st == read_u8(w) IN
  IF ~st.ok THEN EntryErr
  ELSE IF st.v = 0 THEN [kind |-> "none", entry |-> NoEntry, rest |-> st.rest]
  ELSE
  LET inh == IF StatusHas(st.v, STATUS_REPEAT_PARTIAL_NAME)
               THEN read_u8(st.rest)
               ELSE [ok |-> TRUE, v |-> 0, rest |-> st.rest] IN
  IF ~inh.ok THEN EntryErr
  ELSE
  LET nl == IF StatusHas(st.v, STATUS_LONG_NAME)
              THEN read_i32(inh.rest)
              ELSE read_u8(inh.rest) IN
  IF ~nl.ok THEN EntryErr
  ELSE IF nl.v < 0 THEN EntryPanic
  ELSE
  LET nm == read_byte_string(nl.rest, nl.v) IN
  IF ~nm.ok THEN EntryErr
  ELSE IF inh.v > 0 /\ previous = None THEN EntryPanic
  ELSE
  LET full == IF inh.v > 0
                THEN Truncate(previous[1].name, inh.v) \o nm.v
                ELSE nm.v IN
  IF full = <<>> THEN EntryPanic
  ELSE IF validate_name(full) # "ok" THEN EntryErr
  ELSE ReceiveFileEntryFields(st.v, full, nm.rest, previous)

\* <[u8]>::cmp: the first differing byte decides, else the shorter is less.
RECURSIVE NameCmp(_, _)
NameCmp(a, b) ==
  IF a = <<>> /\ b = <<>> THEN "Equal"
  ELSE IF a = <<>> THEN "Less"
  ELSE IF b = <<>> THEN "Greater"
  ELSE IF Head(a) < Head(b) THEN "Less"
  ELSE IF Head(a) > Head(b) THEN "Greater"
  ELSE NameCmp(Tail(a), Tail(b))

IndexPermutations(n) ==
  { f \in [1..n -> 1..n] : \A i, j \in 1..n : i # j => f[i] # f[j] }

\* file_list.sort_unstable_by(|a, b| a.name.cmp(&b.name)): every ordering of
\* the entries that the comparison allows; entries of equal name may come out
\* in any order.
SortUnstableByName(v) ==
  { w \in { [i \in 1..Len(v) |-> v[f[i]]] : f \in IndexPermutations(Len(v)) } :
      \A i \in 1..(Len(w) - 1) : NameCmp(w[i].name, w[i + 1].name) # "Greater" }

\* A dedup_by that compares the first byte of the names only.
RECURSIVE DedupByName_FirstByte(_)
DedupByName_FirstByte(v) ==
  IF Len(v) <= 1 THEN v
  ELSE LET d == DedupByName_FirstByte(SubSeq(v, 1, Len(v) - 1)) IN
         IF v[Len(v)].name[1] = d[Len(d)].name[1] THEN d ELSE Append(d, v[Len(v)])

\* file_list.dedup_by(|a, b| a.name == b.name): of each run of equal names
\* the first entry stays.
RECURSIVE DedupByName(_)
DedupByName(v) ==
  IF Len(v) <= 1 THEN v
  ELSE LET d == DedupByName(SubSeq(v, 1, Len(v) - 1)) IN
         IF v[Len(v)].name = d[Len(d)].name THEN d ELSE Append(d, v[Len(v)])

\* sort_and_dedupe without the dedup_by.
sort_and_dedupe_NoDedup(v) == SortUnstableByName(v)

\* sort_and_dedupe: the lists it can leave in file_list.
sort_and_dedupe(v) == { DedupByName(w) : w \in SortUnstableByName(v) }


\* What the server can send for one entry.  Every status byte has bit 0x01
\* set, which the client ignores, so that no entry starts with the 0 that
\* ends the list.
WireTimeAndMode == ToLeBytes32(7) \o ToLeBytes32(ModeFile)

WireEntries ==
  { << 1, 1, 98 >> \o ToLeBytes32(5) \o WireTimeAndMode,          \* "b"
    << 1, 1, 97 >> \o ToLeBytes32(5) \o WireTimeAndMode,          \* "a"
    << 33, 1, 1, 99 >> \o ToLeBytes32(5) \o WireTimeAndMode,      \* one inherited byte, then "c"
    << 131, 1, 97 >> \o ToLeBytes32(6),                           \* "a", mtime and mode repeated
    << 65 >> \o ToLeBytes32(2) \o << 97, 98 >>
       \o ToLeBytes32(5) \o WireTimeAndMode,                      \* "ab" with a long name length
    << 1, 2, 46, 46 >> \o ToLeBytes32(5) \o WireTimeAndMode,      \* ".."
    << 1, 1, 97 >> \o ToLeBytes32(-2) \o WireTimeAndMode,         \* "a", file_len -2
    << 1, 1, 97 >> \o ToLeBytes32(-1) \o << 0, 0, 0, 0, 1, 0, 0, 0 >>
       \o WireTimeAndMode,                                        \* "a", file_len 2^32
    << 1, 0 >> \o ToLeBytes32(5) \o WireTimeAndMode,              \* empty name
    << 65 >> \o ToLeBytes32(-1) }                                 \* name length -1

RECURSIVE Flatten(_)
Flatten(ss) == IF ss = <<>> THEN <<>> ELSE Head(ss) \o Flatten(Tail(ss))

\* Entries given by their fields: the four flags the client looks at, the
\* inherited count, the name bytes sent, file_len as it is sent and as the
\* i64 it stands for, mtime and mode.
Fields(inh, long, rmtime, rmode, n, fresh, lenw, len, mt, md) ==
  [ inherit_flag |-> inh, long_flag |-> long, repeat_mtime |-> rmtime,
    repeat_mode |-> rmode, inherit |-> n, fresh |-> fresh,
    file_len_wire |-> lenw, file_len |-> len, mtime |-> mt, mode |-> md ]

Five == << 5, 0, 0, 0 >>

EntryVectors ==
  { Fields(FALSE, FALSE, FALSE, FALSE, 0, << 98 >>, Five, I32AsI64(5), 7, ModeFile),
    Fields(FALSE, FALSE, FALSE, FALSE, 0, << 97 >>, Five, I32AsI64(5), 7, ModeFile),
    Fields(TRUE, FALSE, FALSE, FALSE, 1, << 99 >>, Five, I32AsI64(5), 7, ModeFile),
    Fields(FALSE, FALSE, TRUE, TRUE, 0, << 97 >>, << 6, 0, 0, 0 >>, I32AsI64(6), 0, 0),
    Fields(FALSE, TRUE, FALSE, FALSE, 0, << 97, 98 >>, Five, I32AsI64(5), 7, ModeFile),
    Fields(FALSE, FALSE, FALSE, FALSE, 0, << 100 >>, Five, I32AsI64(5), 9, ModeDir),
    Fields(TRUE, FALSE, TRUE, FALSE, 5, << 120 >>, Five, I32AsI64(5), 0, ModeDir),
    Fields(FALSE, FALSE, FALSE, TRUE, 0, << 122 >>, Five, I32AsI64(5), 8, 0),
    Fields(TRUE, FALSE, FALSE, FALSE, 0, << 121 >>, Five, I32AsI64(5), 7, ModeFile),
    Fields(FALSE, FALSE, FALSE, FALSE, 0, << 97 >>,
           << 255, 255, 255, 255, 0, 0, 0, 0, 0, 0, 0, 128 >>,
           << 0, 0, 0, 0, 0, 0, 0, 128 >>, 7, ModeFile),
    Fields(FALSE, FALSE, FALSE, FALSE, 0, <<>>, Five, I32AsI64(5), 7, ModeFile),
    Fields(FALSE, FALSE, FALSE, FALSE, 0, << 46, 46 >>, Five, I32AsI64(5), 7, ModeFile),
    Fields(FALSE, FALSE, FALSE, FALSE, 0, << 47, 97 >>, Five, I32AsI64(5), 7, ModeFile),
    Fields(FALSE, FALSE, FALSE, FALSE, 0, << 97, 47, 47, 98 >>, Five, I32AsI64(5), 7,
           ModeFile),
    Fields(FALSE, FALSE, FALSE, FALSE, 0, << 97 >>, << 254, 255, 255, 255 >>,
           << 254, 255, 255, 255, 255, 255, 255, 255 >>, 7, ModeFile),
    Fields(FALSE, FALSE, FALSE, FALSE, 0, << 97 >>,
           << 255, 255, 255, 255, 0, 0, 0, 0, 1, 0, 0, 0 >>,
           << 0, 0, 0, 0, 1, 0, 0, 0 >>, 7, ModeFile) }

\* The bytes of an entry as the server writes them: status, inherited count
\* (with flag 0x20), name length (an i32 with flag 0x40, else one byte), name
\* bytes, file_len, mtime (without flag 0x80), mode (without flag 0x02).
EntryBytes(f) ==
  << 1 + (IF f.repeat_mode THEN 2 ELSE 0) + (IF f.inherit_flag THEN 32 ELSE 0)
       + (IF f.long_flag THEN 64 ELSE 0) + (IF f.repeat_mtime THEN 128 ELSE 0) >>
    \o (IF f.inherit_flag THEN << f.inherit >> ELSE <<>>)
    \o (IF f.long_flag THEN ToLeBytes32(Len(f.fresh)) ELSE << Len(f.fresh) >>)
    \o f.fresh
    \o f.file_len_wire
    \o (IF f.repeat_mtime THEN <<>> ELSE ToLeBytes32(f.mtime))
    \o (IF f.repeat_mode THEN <<>> ELSE ToLeBytes32(f.mode))

\* Every entry a server sends in the model.
SentEntries == WireEntries \cup { EntryBytes(f) : f \in EntryVectors }

\* The byte streams the server can send for the entries es: the entries, the
\* 0 that ends the list, and possibly the connection lost some bytes before
\* the end.
FileListStreams(es) ==
  { SubSeq(Flatten(es) \o << 0 >>, 1, Len(Flatten(es)) + 1 - cut) :
      cut \in 0..MaxCut }

InitFlist ==
  /\ SessionIdle
  /\ NameIdle
  /\ DemuxIdle
  /\ ClientIdle
  /\ TreeIdle
  /\ VarintIdle
  /\ HandshakeIdle
  /\ PipesIdle
  /\ MuxIdle
  /\ flist_sent \in UNION { [1..n -> SentEntries] : n \in 0..MaxEntries }
  /\ wire \in FileListStreams(flist_sent)
  /\ flist_vec = <<>>
  /\ decoded = <<>>
  /\ flist_state = "reading"

\* file_list.first() in the place of file_list.last().
Last_First(v) == IF v = <<>> THEN None ELSE Some(v[1])

\* file_list.last()
Last(v) == IF v = <<>> THEN None ELSE Some(v[Len(v)])

\* One turn of the while-let loop of read_file_list that pushes an entry.
ReadFileListPush ==
  /\ flist_state = "reading"
  /\ LET x == receive_file_entry(wire, Last(flist_vec)) IN
       /\ x.kind = "entry"
       /\ flist_vec' = Append(flist_vec, x.entry)
       /\ decoded' = Append(decoded, x.entry)
       /\ wire' = x.rest
  /\ UNCHANGED << flist_state, flist_sent, exceptFlist >>

\* The last turn: the status byte 0, then sort_and_dedupe and Ok(file_list).
ReadFileListEnd ==
  /\ flist_state = "reading"
  /\ LET x == receive_file_entry(wire, Last(flist_vec)) IN
       /\ x.kind = "none"
       /\ flist_vec' \in sort_and_dedupe(flist_vec)
       /\ wire' = x.rest
  /\ flist_state' = "ok"
  /\ UNCHANGED << decoded, flist_sent, exceptFlist >>

\* receive_file_entry returns Err, which read_file_list passes on with `?`.
ReadFileListErr ==
  /\ flist_state = "reading"
  /\ receive_file_entry(wire, Last(flist_vec)).kind = "err"
  /\ flist_state' = "err"
  /\ UNCHANGED << wire, flist_vec, decoded, flist_sent, exceptFlist >>

\* receive_file_entry panics.
ReadFileListPanic ==
  /\ flist_state = "reading"
  /\ receive_file_entry(wire, Last(flist_vec)).kind = "panic"
  /\ flist_state' = "panicked"
  /\ UNCHANGED << wire, flist_vec, decoded, flist_sent, exceptFlist >>

NextFlist ==
  \/ ReadFileListPush
  \/ ReadFileListEnd
  \/ ReadFileListErr
  \/ ReadFileListPanic

SpecFlist == InitFlist /\ [][NextFlist]_vars

\* a comes before b byte-wise: at the first position where they differ, a
\* has ended or has the smaller byte.
BytewiseLess(a, b) ==
  \E k \in 1..Len(b) :
    /\ \A j \in 1..(k - 1) : j <= Len(a) /\ a[j] = b[j]
    /\ \/ k = Len(a) + 1
       \/ k <= Len(a) /\ a[k] < b[k]

\* C2: for every byte stream that read_file_list accepts, the returned list
\* is strictly ascending in byte-wise comparison of name at all adjacent
\* positions, hence no two entries share a name.
C2_StrictlyAscending ==
  flist_state = "ok" =>
    /\ \A i \in 1..(Len(flist_vec) - 1) :
         BytewiseLess(flist_vec[i].name, flist_vec[i + 1].name)
    /\ \A i, j \in DOMAIN flist_vec :
         i # j => flist_vec[i].name # flist_vec[j].name

\* An accepted stream of three entries sent out of order and with one name
\* twice: two entries are returned.
C2_Witness ==
  /\ flist_state = "ok"
  /\ Len(decoded) = 3
  /\ Len(flist_vec) = 2
  /\ BytewiseLess(decoded[2].name, decoded[1].name)


(***************************************************************************)
(* DemuxRead (src/src/mux.rs), checked on its own, byte by byte: SpecDemux.*)
(***************************************************************************)

\* Most frames in a generated stream.
MaxFrames == 3
\* Longest payload of a generated frame.
MaxPayload == 2
\* Largest buffer the caller passes to read.
MaxBuf == 2
\* Most bytes lost from the end of a generated stream.
MaxLost == 1

TAG_DATA == 7
TAG_FATAL == 1
\* A tag that is neither: a message that is logged and skipped.
TagMessage == 2

\* u32::from_le_bytes, for a last byte below 128.
U32FromLeBytes(b) == b[1] + 256 * b[2] + 65536 * b[3] + 16777216 * b[4]

\* read_header_consume_messages with every frame taken for data.
read_header_consume_messages_AnyTagIsData(w, log) ==
  IF Len(w) < 4
    THEN [kind |-> "ok", len |-> 0, rest |-> <<>>, log |-> log]
    ELSE [kind |-> "ok", len |-> U32FromLeBytes(SubSeq(w, 1, 4)) % 16777216,
          rest |-> SubSeq(w, 5, Len(w)), log |-> log]

\* read_header_consume_messages that takes a data header of length 0 for
\* an empty data block.
RECURSIVE read_header_consume_messages_ZeroLenData(_, _)
read_header_consume_messages_ZeroLenData(w, log) ==
  IF Len(w) < 4
    THEN [kind |-> "ok", len |-> 0, rest |-> <<>>, log |-> log]
    ELSE
      LET h == U32FromLeBytes(SubSeq(w, 1, 4))
          tag == h \div 16777216
          len == h % 16777216
          body == SubSeq(w, 5, Len(w)) IN
        IF tag = TAG_DATA
          THEN [kind |-> "ok", len |-> len, rest |-> body, log |-> log]
        ELSE IF Len(body) < len
          THEN [kind |-> "UnexpectedEof", len |-> 0, rest |-> <<>>, log |-> log]
        ELSE IF tag = TAG_FATAL
          THEN [kind |-> "ConnectionAborted", len |-> 0,
                rest |-> SubSeq(body, len + 1, Len(body)),
                log |-> Append(log, SubSeq(body, 1, len))]
        ELSE read_header_consume_messages_ZeroLenData(
               SubSeq(body, len + 1, Len(body)), Append(log, SubSeq(body, 1, len)))

\* read_header_consume_messages that goes on after a fatal message as after
\* any other message.
RECURSIVE read_header_consume_messages_FatalGoesOn(_, _)
read_header_consume_messages_FatalGoesOn(w, log) ==
  IF Len(w) < 4
    THEN [kind |-> "ok", len |-> 0, rest |-> <<>>, log |-> log]
    ELSE
      LET h == U32FromLeBytes(SubSeq(w, 1, 4))
          tag == h \div 16777216
          len == h % 16777216
          body == SubSeq(w, 5, Len(w)) IN
        IF tag = TAG_DATA
          THEN IF len = 0
                 THEN [kind |-> "InvalidData", len |-> 0, rest |-> body, log |-> log]
                 ELSE [kind |-> "ok", len |-> len, rest |-> body, log |-> log]
        ELSE IF Len(body) < len
          THEN [kind |-> "UnexpectedEof", len |-> 0, rest |-> <<>>, log |-> log]
        ELSE read_header_consume_messages_FatalGoesOn(
               SubSeq(body, len + 1, Len(body)), Append(log, SubSeq(body, 1, len)))

\* read_header_consume_messages on the remaining bytes w, with the messages
\* logged so far: "ok" with the length of the next data block (0 for an end
\* of stream in the header), or the kind of the io::Error.
RECURSIVE read_header_consume_messages(_, _)
read_header_consume_messages(w, log) ==
  IF Len(w) < 4
    THEN [kind |-> "ok", len |-> 0, rest |-> <<>>, log |-> log]
    ELSE
      LET h == U32FromLeBytes(SubSeq(w, 1, 4))
          tag == h \div 16777216
          len == h % 16777216
          body == SubSeq(w, 5, Len(w)) IN
        IF tag = TAG_DATA
          THEN IF len = 0
                 THEN [kind |-> "InvalidData", len |-> 0, rest |-> body, log |-> log]
                 ELSE [kind |-> "ok", len |-> len, rest |-> body, log |-> log]
        ELSE IF Len(body) < len
          THEN [kind |-> "UnexpectedEof", len |-> 0, rest |-> <<>>, log |-> log]
        ELSE IF tag = TAG_FATAL
          THEN [kind |-> "ConnectionAborted", len |-> 0,
                rest |-> SubSeq(body, len + 1, Len(body)),
                log |-> Append(log, SubSeq(body, 1, len))]
        ELSE read_header_consume_messages(SubSeq(body, len + 1, Len(body)),
                                          Append(log, SubSeq(body, 1, len)))

\* What self.r.read(&mut buf[..max_len]) can return on the remaining bytes w:
\* 0 for an empty buffer or at the end of the stream, otherwise any number
\* of the bytes that are there, at least one.
UnderlyingReads(w, max_len) ==
  IF max_len = 0 \/ w = <<>> THEN { 0 } ELSE 1..Min(max_len, Len(w))

\* The payload of the k-th frame: bytes that occur nowhere else.
FramePayload(k, len) == [i \in 1..len |-> 10 * k + i]

\* The header the server writes: the length in three bytes, then the tag.
FrameHeader(tag, len) ==
  << len % 256, (len \div 256) % 256, (len \div 65536) % 256, tag >>

RECURSIVE EncodeFrames(_)
EncodeFrames(fs) ==
  IF fs = <<>> THEN <<>>
  ELSE FrameHeader(Head(fs).tag, Len(Head(fs).payload)) \o Head(fs).payload
         \o EncodeFrames(Tail(fs))

FrameShapes == [tag : { TAG_DATA, TAG_FATAL, TagMessage }, len : 0..MaxPayload]

FrameSequences ==
  { [k \in DOMAIN sh |-> [tag |-> sh[k].tag, payload |-> FramePayload(k, sh[k].len)]] :
      sh \in UNION { [1..m -> FrameShapes] : m \in 0..MaxFrames } }


InitDemux ==
  /\ SessionIdle
  /\ NameIdle
  /\ FlistIdle
  /\ ClientIdle
  /\ TreeIdle
  /\ VarintIdle
  /\ HandshakeIdle
  /\ PipesIdle
  /\ MuxIdle
  /\ frames \in FrameSequences
  /\ lost \in 0..Min(MaxLost, Len(EncodeFrames(frames)))
  /\ r = SubSeq(EncodeFrames(frames), 1, Len(EncodeFrames(frames)) - lost)
  /\ current_packet_len = 0
  /\ delivered = <<>>
  /\ remote_log = <<>>
  /\ demux_state = "open"

\* DemuxRead::read that reads as much as the buffer takes, whatever is left
\* of the current data block.
DemuxRead_WholeBuffer(buflen) ==
  LET hdr == IF current_packet_len = 0
               THEN read_header_consume_messages(r, remote_log)
               ELSE [kind |-> "ok", len |-> current_packet_len, rest |-> r,
                     log |-> remote_log] IN
    /\ demux_state # "idle"
    /\ remote_log' = hdr.log
    /\ IF hdr.kind # "ok"
         THEN /\ r' = hdr.rest
              /\ demux_state' = hdr.kind
              /\ UNCHANGED << current_packet_len, delivered >>
         ELSE \E read_len \in UnderlyingReads(hdr.rest, buflen) :
                /\ current_packet_len' = hdr.len - read_len
                /\ delivered' = delivered \o SubSeq(hdr.rest, 1, read_len)
                /\ r' = SubSeq(hdr.rest, read_len + 1, Len(hdr.rest))
                /\ demux_state' = IF read_len = 0 THEN "eof" ELSE "data"
    /\ UNCHANGED << frames, lost, exceptDemux >>

\* DemuxRead::read with a buffer of buflen bytes.
DemuxRead(buflen) ==
  LET hdr == IF current_packet_len = 0
               THEN read_header_consume_messages(r, remote_log)
               ELSE [kind |-> "ok", len |-> current_packet_len, rest |-> r,
                     log |-> remote_log] IN
    /\ demux_state # "idle"
    /\ remote_log' = hdr.log
    /\ IF hdr.kind # "ok"
         THEN /\ r' = hdr.rest
              /\ demux_state' = hdr.kind
              /\ UNCHANGED << current_packet_len, delivered >>
         ELSE \E read_len \in UnderlyingReads(hdr.rest, Min(buflen, hdr.len)) :
                /\ current_packet_len' = hdr.len - read_len
                /\ delivered' = delivered \o SubSeq(hdr.rest, 1, read_len)
                /\ r' = SubSeq(hdr.rest, read_len + 1, Len(hdr.rest))
                /\ demux_state' = IF read_len = 0 THEN "eof" ELSE "data"
    /\ UNCHANGED << frames, lost, exceptDemux >>

NextDemux ==
  \/ \E buflen \in 1..MaxBuf : DemuxRead(buflen)

SpecDemux == InitDemux /\ [][NextDemux]_vars

\* The payloads of the data frames of fs, in order.
RECURSIVE DataPayloads(_)
DataPayloads(fs) ==
  IF fs = <<>> THEN <<>>
  ELSE (IF Head(fs).tag = 7 THEN Head(fs).payload ELSE <<>>) \o DataPayloads(Tail(fs))

\* Complete valid frames: nothing lost, every data frame has at least one
\* byte, and no frame is fatal.
ValidFrames ==
  /\ demux_state # "idle"
  /\ lost = 0
  /\ \A k \in DOMAIN frames :
       /\ frames[k].tag # 1
       /\ frames[k].tag = 7 => Len(frames[k].payload) >= 1

\* C7: for every input that is a sequence of complete valid frames and every
\* sequence of buffer sizes >= 1, the bytes read returns are, in order, the
\* tag-7 payloads: always a prefix of their concatenation, all of it once
\* read has returned 0, no read fails, and no byte of a message payload is
\* ever returned.
C7_DemuxConcatenation ==
  ValidFrames =>
    /\ IsPrefix(delivered, DataPayloads(frames))
    /\ demux_state \in { "open", "data", "eof" }
    /\ demux_state = "eof" => delivered = DataPayloads(frames)
    /\ \A k \in DOMAIN frames :
         frames[k].tag # 7 =>
           \A i \in DOMAIN delivered : ~Has(frames[k].payload, delivered[i])

\* A data frame, a message, a data frame, read to the end: three or more
\* bytes returned and the message logged.
C7_Witness ==
  /\ ValidFrames
  /\ Len(frames) = 3
  /\ frames[1].tag = 7
  /\ frames[2].tag # 7
  /\ Len(frames[2].payload) >= 1
  /\ frames[3].tag = 7
  /\ demux_state = "eof"
  /\ Len(delivered) >= 3
  /\ remote_log = << frames[2].payload >>


(***************************************************************************)
(* Further properties of the session (Spec).                               *)
(***************************************************************************)

\* The last read of the main thread, or "" before the first.
LastRead == IF inp = <<>> THEN "" ELSE inp[Len(inp)]

\* C11: Connection::receive returns Ok only after, in this order, the reader
\* has been checked to be at end of stream, the writer half has been closed
\* and the child has been waited for, and the summary then has
\* child_exit_status present; a data byte where the end of stream is
\* expected makes receive return an error and never Ok.
C11_ShutdownOrder ==
  /\ [](pc = "done" =>
          /\ LastRead = "eof"
          /\ wv = "closed"
          /\ child = "waited"
          /\ summary.child_exit_status # None)
  /\ [](Has(inp, "data") => pc \notin { "drop_wv", "child_wait", "done" })
  /\ [][(wv = "open" /\ wv' = "closed" /\ pc' \notin { "failed", "panicked" })
          => (LastRead = "eof" /\ child = "running")]_vars
  /\ [][(child # "waited" /\ child' = "waited")
          => (LastRead = "eof" /\ wv = "closed" /\ pc' = "done")]_vars

\* A download of a non-empty list has returned Ok with the exit status 23.
C11_Witness ==
  /\ pc = "done"
  /\ ~list_only
  /\ file_list # <<>>
  /\ summary.child_exit_status = Some(23)


(***************************************************************************)
(* Client (src/src/client.rs): SpecClient and SpecFromStr.  A text is a    *)
(* sequence of one-character strings.                                      *)
(***************************************************************************)

\* Options::default()
DefaultOptions ==
  [recursive |-> FALSE, rsync_command |-> None, ssh_command |-> None,
   list_only |-> FALSE, verbose |-> 0]

Digits == { "0", "1", "2", "3", "4", "5", "6", "7", "8", "9" }

DigitValue(c) ==
  CASE c = "0" -> 0 [] c = "1" -> 1 [] c = "2" -> 2 [] c = "3" -> 3
    [] c = "4" -> 4 [] c = "5" -> 5 [] c = "6" -> 6 [] c = "7" -> 7
    [] c = "8" -> 8 [] c = "9" -> 9

\* The value of a run of digits, held at 65536 once it has passed 65535.
RECURSIVE DecimalValue(_)
DecimalValue(t) ==
  IF t = <<>> THEN 0
  ELSE Min(65536, 10 * DecimalValue(SubSeq(t, 1, Len(t) - 1)) + DigitValue(t[Len(t)]))

\* p.as_str().parse::<u16>(): Some(n), or None when the number exceeds 65535.
ParseU16(t) ==
  IF DecimalValue(t) > 65535 THEN None ELSE Some(DecimalValue(t))

\* Whether every character of s[a..b] is outside the set cs.
NoneOf(s, a, b, cs) == \A k \in a..b : s[k] \notin cs

UrlPrefix == << "r", "s", "y", "n", "c", ":", "/", "/" >>

\* How the regex engine orders two ways to match: one that takes an optional
\* group, or takes more characters in an earlier greedy repetition, comes
\* first.  A way to match is a tuple of numbers, earlier choices first.
RECURSIVE Preferred(_, _)
Preferred(m, n) ==
  IF m = <<>> THEN TRUE
  ELSE IF Head(m) # Head(n) THEN Head(m) > Head(n)
  ELSE Preferred(Tail(m), Tail(n))

First(ways) == CHOOSE m \in ways : \A n \in ways : Preferred(m, n)

\* The ways URL_RE matches s: << u, he, pe >> with u the position of the '@'
\* that ends the user (0 without a user), he the last position of the host
\* and pe the last position of the port (0 without a port).
UrlWays(s) ==
  IF Len(s) < 8 \/ SubSeq(s, 1, 8) # UrlPrefix THEN {}
  ELSE
    { w \in (0..Len(s)) \X (9..Len(s)) \X (0..Len(s)) :
        LET u == w[1]
            he == w[2]
            pe == w[3]
            hs == IF u = 0 THEN 9 ELSE u + 1
            after == IF pe = 0 THEN he ELSE pe IN
          /\ u = 0 \/ (u >= 10 /\ s[u] = "@" /\ NoneOf(s, 9, u - 1, { "@", ":" }))
          /\ he >= hs
          /\ NoneOf(s, hs, he, { ":", "/" })
          /\ pe = 0 \/ (/\ pe >= he + 2
                        /\ s[he + 1] = ":"
                        /\ \A k \in (he + 2)..pe : s[k] \in Digits)
          /\ after + 1 <= Len(s)
          /\ s[after + 1] = "/"
          /\ NoneOf(s, after + 2, Len(s), { "\n" }) }

\* The ways SFTP_RE matches s: << u, he, c >> with u and he as above and c
\* 1 when the second colon is there, else 0.
SftpWays(s) ==
  { w \in (0..Len(s)) \X (1..Len(s)) \X (0..1) :
      LET u == w[1]
          he == w[2]
          c == w[3]
          hs == u + 1 IN
        /\ u = 0 \/ (u >= 2 /\ s[u] = "@" /\ NoneOf(s, 1, u - 1, { "@", ":" }))
        /\ he >= hs
        /\ NoneOf(s, hs, he, { ":", "@" })
        /\ he + 1 <= Len(s)
        /\ s[he + 1] = ":"
        /\ c = 1 => (he + 2 <= Len(s) /\ s[he + 2] = ":")
        /\ NoneOf(s, he + 2 + c, Len(s), { "\n" }) }


\* caps.name("user").map(..) for a user that ends at the '@' in position u
\* and starts at position from.
UserOf(s, from, u) == IF u = 0 THEN None ELSE Some(SubSeq(s, from, u - 1))

\* Client::from_str: "ok" with the Client, or "panic" when the port does not
\* parse as a u16 and unwrap panics.
from_str(s) ==
  IF UrlWays(s) # {}
    THEN LET w == First(UrlWays(s))
             hs == IF w[1] = 0 THEN 9 ELSE w[1] + 1
             after == IF w[3] = 0 THEN w[2] ELSE w[3]
             port == IF w[3] = 0 THEN None
                     ELSE ParseU16(SubSeq(s, w[2] + 2, w[3])) IN
           IF w[3] # 0 /\ port = None
             THEN [kind |-> "panic", client |-> None]
             ELSE [kind |-> "ok",
                   client |-> Some([path |-> SubSeq(s, after + 2, Len(s)),
                                    ssh |-> None,
                                    daemon |-> Some([user |-> UserOf(s, 9, w[1]),
                                                     host |-> SubSeq(s, hs, w[2]),
                                                     port |-> port]),
                                    options |-> DefaultOptions])]
  ELSE IF SftpWays(s) # {}
    THEN LET w == First(SftpWays(s)) IN
           IF w[3] = 1
             THEN [kind |-> "ok",
                   client |-> Some([path |-> SubSeq(s, w[2] + 3, Len(s)),
                                    ssh |-> None,
                                    daemon |-> Some([user |-> UserOf(s, 1, w[1]),
                                                     host |-> SubSeq(s, w[1] + 1, w[2]),
                                                     port |-> None]),
                                    options |-> DefaultOptions])]
             ELSE [kind |-> "ok",
                   client |-> Some([path |-> SubSeq(s, w[2] + 2, Len(s)),
                                    ssh |-> Some([user |-> UserOf(s, 1, w[1]),
                                                  host |-> SubSeq(s, w[1] + 1, w[2])]),
                                    daemon |-> None,
                                    options |-> DefaultOptions])]
  ELSE [kind |-> "ok",
        client |-> Some([path |-> s, ssh |-> None, daemon |-> None,
                         options |-> DefaultOptions])]


\* Largest verbose level set on a client.
MaxVerbose == 2

DEFAULT_SSH_COMMAND == << "s", "s", "h" >>
DEFAULT_RSYNC_COMMAND == << "r", "s", "y", "n", "c" >>
WordL == << "-", "l" >>
WordServer == << "-", "-", "s", "e", "r", "v", "e", "r" >>
WordSender == << "-", "-", "s", "e", "n", "d", "e", "r" >>
WordListOnly == << "-", "-", "l", "i", "s", "t", "-", "o", "n", "l", "y" >>
WordR == << "-", "r" >>
WordDot == << "." >>

\* The string o after n turns of `o.push('v')`.
RECURSIVE PushV(_, _)
PushV(o, n) == IF n = 0 THEN o ELSE PushV(Append(o, "v"), n - 1)

\* Client::build_args with '-r' pushed before '--list-only'.
build_args_RecursiveFirst(c) ==
  (IF c.ssh # None
     THEN (IF c.options.ssh_command # None
             THEN c.options.ssh_command[1]
             ELSE << DEFAULT_SSH_COMMAND >>)
          \o (IF c.ssh[1].user # None THEN << WordL, c.ssh[1].user[1] >> ELSE <<>>)
          \o << c.ssh[1].host >>
     ELSE <<>>)
  \o (IF c.options.rsync_command # None
        THEN c.options.rsync_command[1]
        ELSE << DEFAULT_RSYNC_COMMAND >>)
  \o << WordServer, WordSender >>
  \o (IF c.options.verbose > 0 THEN << PushV(<< "-" >>, c.options.verbose) >> ELSE <<>>)
  \o (IF c.options.recursive THEN << WordR >> ELSE <<>>)
  \o (IF c.options.list_only THEN << WordListOnly >> ELSE <<>>)
  \o (IF c.path = <<>> THEN << WordDot >> ELSE << c.path >>)

\* Client::build_args: the vector v after the pushes, in program order.
build_args(c) ==
  (IF c.ssh # None
     THEN (IF c.options.ssh_command # None
             THEN c.options.ssh_command[1]
             ELSE << DEFAULT_SSH_COMMAND >>)
          \o (IF c.ssh[1].user # None THEN << WordL, c.ssh[1].user[1] >> ELSE <<>>)
          \o << c.ssh[1].host >>
     ELSE <<>>)
  \o (IF c.options.rsync_command # None
        THEN c.options.rsync_command[1]
        ELSE << DEFAULT_RSYNC_COMMAND >>)
  \o << WordServer, WordSender >>
  \o (IF c.options.verbose > 0 THEN << PushV(<< "-" >>, c.options.verbose) >> ELSE <<>>)
  \o (IF c.options.list_only THEN << WordListOnly >> ELSE <<>>)
  \o (IF c.options.recursive THEN << WordR >> ELSE <<>>)
  \o (IF c.path = <<>> THEN << WordDot >> ELSE << c.path >>)

\* The Options a caller can set.
SshCommands == { None, Some(<<>>), Some(<< << "x", "s", "h" >>, << "-", "A" >> >>) }
RsyncCommands == { None, Some(<< << "/", "o", "/", "r" >> >>) }

OptionValues ==
  [recursive : BOOLEAN, rsync_command : RsyncCommands, ssh_command : SshCommands,
   list_only : BOOLEAN, verbose : 0..MaxVerbose]

\* The strings handed to Client::from_str, Client::local and Client::ssh in
\* SpecClient: a relative path, an empty path, host:path with and without a
\* user and with an empty path, a daemon address and an rsync URL.
ClientAddresses ==
  { << ".", "/", "s" >>,
    <<>>,
    << "h", ":", "/", "m" >>,
    << "m", "@", "h", ":", "w" >>,
    << "h", ":" >>,
    << "h", ":", ":", "m" >>,
    UrlPrefix \o << "h", "/", "m" >> }

InitClient ==
  /\ SessionIdle
  /\ NameIdle
  /\ FlistIdle
  /\ DemuxIdle
  /\ TreeIdle
  /\ VarintIdle
  /\ HandshakeIdle
  /\ PipesIdle
  /\ MuxIdle
  /\ addr \in ClientAddresses
  /\ client = None
  /\ args = <<>>
  /\ conn_options = None
  /\ client_pc = "new"


\* Client::from_str(addr)
FromStr ==
  /\ client_pc = "new"
  /\ LET x == from_str(addr) IN
       /\ client' = x.client
       /\ client_pc' = IF x.kind = "ok" THEN "built" ELSE "panicked"
  /\ UNCHANGED << addr, args, conn_options, exceptClient >>

\* Client::local(addr)
ClientLocal ==
  /\ client_pc = "new"
  /\ client' = Some([path |-> addr, ssh |-> None, daemon |-> None,
                     options |-> DefaultOptions])
  /\ client_pc' = "built"
  /\ UNCHANGED << addr, args, conn_options, exceptClient >>

\* Client::ssh(user, host, addr)
ClientSsh(user, host) ==
  /\ client_pc = "new"
  /\ client' = Some([path |-> addr, ssh |-> Some([user |-> user, host |-> host]),
                     daemon |-> None, options |-> DefaultOptions])
  /\ client_pc' = "built"
  /\ UNCHANGED << addr, args, conn_options, exceptClient >>

\* Client::set_options(o), or assignments through Client::mut_options().
SetOptions(o) ==
  /\ client_pc = "built"
  /\ client' = Some([client[1] EXCEPT !.options = o])
  /\ UNCHANGED << addr, args, conn_options, client_pc, exceptClient >>

\* Client::set_recursive(b)
SetRecursive(b) ==
  /\ client_pc = "built"
  /\ client' = Some([client[1] EXCEPT !.options.recursive = b])
  /\ UNCHANGED << addr, args, conn_options, client_pc, exceptClient >>

\* Client::set_verbose(n)
SetVerbose(n) ==
  /\ client_pc = "built"
  /\ client' = Some([client[1] EXCEPT !.options.verbose = n])
  /\ UNCHANGED << addr, args, conn_options, client_pc, exceptClient >>

\* A call of Client::build_args.
BuildArgs ==
  /\ client_pc = "built"
  /\ args' = build_args(client[1])
  /\ client_pc' = "args"
  /\ UNCHANGED << addr, client, conn_options, exceptClient >>

\* Connection::list_files: the connection lists only, whatever its options
\* said.
ConnectionListFiles(options) == [options EXCEPT !.list_only = TRUE]

\* Client::list_files: connect(), which panics for a daemon address and
\* otherwise starts build_args() as a subprocess and hands a clone of the
\* options to the Connection, then Connection::list_files.  Starting the
\* subprocess can fail.
ListFiles ==
  /\ client_pc = "built"
  /\ IF client[1].daemon # None
       THEN /\ client_pc' = "panicked"
            /\ UNCHANGED << args, conn_options >>
       ELSE /\ args' = build_args(client[1])
            /\ \/ /\ conn_options' = Some(ConnectionListFiles(client[1].options))
                  /\ client_pc' = "connected"
               \/ /\ client_pc' = "failed"
                  /\ UNCHANGED conn_options
  /\ UNCHANGED << addr, client, exceptClient >>

NextClient ==
  \/ FromStr
  \/ ClientLocal
  \/ \E user \in { None, Some(<< "m" >>) } : ClientSsh(user, << "h" >>)
  \/ \E o \in OptionValues : SetOptions(o)
  \/ \E b \in BOOLEAN : SetRecursive(b)
  \/ \E n \in 0..MaxVerbose : SetVerbose(n)
  \/ BuildArgs
  \/ ListFiles

SpecClient == InitClient /\ [][NextClient]_vars

\* The words of Some(words), or the one default word for None.
WordsOr(command, default) == IF command = None THEN << default >> ELSE command[1]

\* The entries of a table of << word, wanted >> pairs that are wanted.
RECURSIVE Wanted(_)
Wanted(table) ==
  IF table = <<>> THEN <<>>
  ELSE (IF Head(table)[2] THEN << Head(table)[1] >> ELSE <<>>) \o Wanted(Tail(table))

\* The argument vector the claim describes for client c.
ClaimedArgs(c) ==
  LET o == c.options
      v == [k \in 1..(o.verbose + 1) |-> IF k = 1 THEN "-" ELSE "v"] IN
    (IF c.ssh = None THEN <<>>
     ELSE WordsOr(o.ssh_command, << "s", "s", "h" >>)
          \o Wanted(<< << << "-", "l" >>, c.ssh[1].user # None >>,
                       << IF c.ssh[1].user = None THEN <<>> ELSE c.ssh[1].user[1],
                          c.ssh[1].user # None >>,
                       << c.ssh[1].host, TRUE >> >>))
    \o WordsOr(o.rsync_command, << "r", "s", "y", "n", "c" >>)
    \o Wanted(<< << WordServer, TRUE >>,
                 << WordSender, TRUE >>,
                 << v, o.verbose > 0 >>,
                 << WordListOnly, o.list_only >>,
                 << WordR, o.recursive >>,
                 << IF c.path = <<>> THEN << "." >> ELSE c.path, TRUE >> >>)

\* C12: Client::build_args returns exactly the ssh_command words or 'ssh',
\* '-l' and the user when a user is set, and the host (when an ssh transport
\* is set); the rsync_command words or 'rsync'; '--server', '--sender'; '-'
\* followed by verbose copies of 'v' iff verbose > 0; '--list-only' iff
\* list_only; '-r' iff recursive; and last the path, or '.' when the path is
\* empty; nothing else, in this order.
C12_BuildArgsExact ==
  client_pc = "args" => args = ClaimedArgs(client[1])

\* test::build_ssh_args_with_user, with a verbose level added: an ssh client
\* with a user, recursive and list_only set, verbose 2.
C12_Witness ==
  /\ client_pc = "args"
  /\ client[1].ssh # None
  /\ client[1].ssh[1].user # None
  /\ client[1].options.recursive
  /\ client[1].options.list_only
  /\ client[1].options.verbose = 2
  /\ client[1].options.ssh_command = None
  /\ Len(args) = 11
  /\ args[8] = << "-", "v", "v" >>
  /\ args[9] = WordListOnly
  /\ args[10] = WordR


\* C13 (as claimed): after Client::list_files has opened its connection, the
\* server's argument vector holds '--list-only' and the connection runs with
\* list_only true, whatever list_only was in the client's options.
C13_ListFilesSetsListOnly ==
  client_pc = "connected" =>
    /\ Has(args, WordListOnly)
    /\ conn_options[1].list_only


(***************************************************************************)
(* LocalTree and WriteFile (src/src/localtree.rs) over a filesystem:       *)
(* SpecTree.  A path is the sequence of its components from "/".           *)
(***************************************************************************)

\* Most bytes written to one WriteFile.
MaxFileLen == 3
\* Longest buffer handed to one write.
MaxWriteLen == 2

Absent == [kind |-> "absent", content |-> <<>>]
Dir == [kind |-> "dir", content |-> <<>>]
File(c) == [kind |-> "file", content |-> c]

\* LocalTree.root
TreeRoot == << "t" >>

\* The names NamedTempFile can pick.  A final path never ends in one of them.
TempNames == { ".tmpA", ".tmpB" }

Dirs == { <<>>, << "t" >>, << "t", "d" >>, << "t", "x" >>, << "o" >> }

PathUniverse == Dirs \cup { Append(d, n) : d \in Dirs, n \in { "hello" } \cup TempNames }

\* The paths handed to write_file: relative "hello", "d/hello", "x/hello"
\* (no directory x), "d" (a directory), "" and absolute "/o/hello" and "/".
TreePaths ==
  { [abs |-> FALSE, comps |-> << "hello" >>],
    [abs |-> FALSE, comps |-> << "d", "hello" >>],
    [abs |-> FALSE, comps |-> << "x", "hello" >>],
    [abs |-> FALSE, comps |-> << "d" >>],
    [abs |-> FALSE, comps |-> <<>>],
    [abs |-> TRUE, comps |-> << "o", "hello" >>],
    [abs |-> TRUE, comps |-> <<>>] }

\* PathBuf::join: an absolute argument replaces the base.
Join(base, p) == IF p.abs THEN p.comps ELSE base \o p.comps

\* Path::parent
Parent(p) == IF p = <<>> THEN None ELSE Some(SubSeq(p, 1, Len(p) - 1))

\* The filesystems a LocalTree can start on: the directories /, /t, /t/d and
\* /o; the files named hello all there with some content or none of them;
\* the temporary name .tmpA taken in every directory or free.
InitialFilesystems ==
  { [q \in PathUniverse |->
       IF q \in { <<>>, << "t" >>, << "t", "d" >>, << "o" >> } THEN Dir
       ELSE IF q # <<>> /\ q[Len(q)] = "hello" /\ hello
                 /\ SubSeq(q, 1, Len(q) - 1) # << "t", "x" >> THEN File(<< 9 >>)
       ELSE IF q # <<>> /\ q[Len(q)] = ".tmpA" /\ taken
                 /\ SubSeq(q, 1, Len(q) - 1) # << "t", "x" >> THEN File(<< 8 >>)
       ELSE Absent] : hello \in BOOLEAN, taken \in BOOLEAN }

\* LocalTree::new(TreeRoot)
InitTree ==
  /\ SessionIdle
  /\ NameIdle
  /\ FlistIdle
  /\ DemuxIdle
  /\ ClientIdle
  /\ VarintIdle
  /\ HandshakeIdle
  /\ PipesIdle
  /\ MuxIdle
  /\ tree_fs \in InitialFilesystems
  /\ lt_alive = TRUE
  /\ wf = None
  /\ wf_before = None
  /\ wf_written = <<>>
  /\ tree_pc = "new"

\* LocalTree::write_file that opens the file under its final name.
write_file_InPlace(fs, path) ==
  LET final_path == Join(TreeRoot, path) IN
    IF Parent(final_path) = None THEN { [kind |-> "panic", fs |-> fs, wf |-> None] }
    ELSE IF fs[Parent(final_path)[1]].kind # "dir"
      THEN { [kind |-> "err", fs |-> fs, wf |-> None] }
    ELSE { [kind |-> "ok", fs |-> [fs EXCEPT ![final_path] = File(<<>>)],
            wf |-> Some([final_path |-> final_path, temp |-> final_path])] }

\* LocalTree::write_file: every outcome on the filesystem fs.  "panic" when
\* the final path has no parent, "err" when the temporary file cannot be
\* created, else "ok" with the new empty file under a free temporary name in
\* the parent directory of the final path.
write_file(fs, path) ==
  LET final_path == Join(TreeRoot, path) IN
    IF Parent(final_path) = None THEN { [kind |-> "panic", fs |-> fs, wf |-> None] }
    ELSE
      LET dir == Parent(final_path)[1] IN
        { [kind |-> "err", fs |-> fs, wf |-> None] }
        \cup (IF fs[dir].kind # "dir" THEN {}
              ELSE { [kind |-> "ok",
                      fs |-> [fs EXCEPT ![Append(dir, n)] = File(<<>>)],
                      wf |-> Some([final_path |-> final_path, temp |-> Append(dir, n)])] :
                       n \in { m \in TempNames : fs[Append(dir, m)].kind = "absent" } })

\* lt.write_file(&path)
WriteFileOpen(path) ==
  /\ tree_pc = "new"
  /\ lt_alive
  /\ \E x \in write_file(tree_fs, path) :
       /\ tree_fs' = x.fs
       /\ wf' = x.wf
       /\ tree_pc' = CASE x.kind = "ok" -> "open"
                       [] x.kind = "err" -> "failed"
                       [] x.kind = "panic" -> "panicked"
       /\ wf_before' = IF x.kind = "ok" THEN Some(tree_fs[x.wf[1].final_path]) ELSE None
  /\ UNCHANGED << lt_alive, wf_written, exceptTree >>

\* The buffers handed to write and write_all.
WriteBuffers == UNION { [1..n -> ContentBytes] : n \in 1..MaxWriteLen }

\* WriteFile::write(buf), write_vectored and write_all: the temporary file
\* takes the first n bytes of buf; write returns n >= 1 or fails with n = 0,
\* write_all returns Ok for n = Len(buf) and fails for less.
WriteFileWrite(buf) ==
  /\ tree_pc = "open"
  /\ \E n \in 0..Len(buf) :
       /\ Len(wf_written) + n <= MaxFileLen
       /\ tree_fs' = [tree_fs EXCEPT ![wf[1].temp].content = @ \o SubSeq(buf, 1, n)]
       /\ wf_written' = wf_written \o SubSeq(buf, 1, n)
  /\ UNCHANGED << lt_alive, wf, wf_before, tree_pc, exceptTree >>


\* temp.persist(&final_path): a rename of the temporary file onto the final
\* path, which replaces a file that is there and fails on a directory; any
\* rename can fail, and then nothing has changed.
persist(fs, w) ==
  { [kind |-> "err", fs |-> fs] }
  \cup (IF fs[w.final_path].kind = "dir" THEN {}
        ELSE { [kind |-> "ok",
                fs |-> [[fs EXCEPT ![w.temp] = Absent] EXCEPT ![w.final_path] = fs[w.temp]]] })

\* WriteFile::finalize.  On failure the error returned holds the temporary
\* file until the caller drops it.
Finalize ==
  /\ tree_pc = "open"
  /\ \E x \in persist(tree_fs, wf[1]) :
       /\ tree_fs' = x.fs
       /\ tree_pc' = IF x.kind = "ok" THEN "finalized" ELSE "persist_failed"
  /\ UNCHANGED << lt_alive, wf, wf_before, wf_written, exceptTree >>

\* A drop that keeps the temporary file by giving it the final name.
DropTemp_KeepAsFinal(fs, w) ==
  { [[fs EXCEPT ![w.temp] = Absent] EXCEPT ![w.final_path] = fs[w.temp]] }

\* NamedTempFile::drop: the temporary file is removed; a failure to remove it
\* is ignored.
DropTemp(fs, w) == { [fs EXCEPT ![w.temp] = Absent], fs }

\* drop(f) of a WriteFile that was not finalized.
DropWriteFile ==
  /\ tree_pc = "open"
  /\ tree_fs' \in DropTemp(tree_fs, wf[1])
  /\ tree_pc' = "dropped"
  /\ UNCHANGED << lt_alive, wf, wf_before, wf_written, exceptTree >>

\* The caller drops the error that a failed finalize returned.
DropPersistError ==
  /\ tree_pc = "persist_failed"
  /\ tree_fs' \in DropTemp(tree_fs, wf[1])
  /\ tree_pc' = "failed"
  /\ UNCHANGED << lt_alive, wf, wf_before, wf_written, exceptTree >>

\* drop(lt): a LocalTree holds its root path and nothing else.
DropLocalTree ==
  /\ tree_pc # "idle"
  /\ lt_alive
  /\ lt_alive' = FALSE
  /\ UNCHANGED << tree_fs, wf, wf_before, wf_written, tree_pc, exceptTree >>

NextTree ==
  \/ \E path \in TreePaths : WriteFileOpen(path)
  \/ \E buf \in WriteBuffers : WriteFileWrite(buf)
  \/ Finalize
  \/ DropWriteFile
  \/ DropPersistError
  \/ DropLocalTree

SpecTree == InitTree /\ [][NextTree]_vars

\* C14: for a WriteFile opened on a path that did not exist, the final path
\* stays absent through creation and any number of writes and appears only
\* at finalize; after finalize the file at the final path holds exactly the
\* bytes written, in order; the temporary file is in the parent directory of
\* the final path, not in the tree root.
C14_AtomicVisibility ==
  /\ (tree_pc \in { "open", "persist_failed" } /\ wf_before = Some(Absent)) =>
       tree_fs[wf[1].final_path] = Absent
  /\ tree_pc = "open" =>
       /\ tree_fs[wf[1].temp] = File(wf_written)
       /\ Len(wf[1].temp) = Len(wf[1].final_path)
       /\ \A k \in 1..(Len(wf[1].temp) - 1) : wf[1].temp[k] = wf[1].final_path[k]
       /\ wf[1].temp # wf[1].final_path
  /\ tree_pc = "finalized" =>
       /\ tree_fs[wf[1].final_path] = File(wf_written)
       /\ tree_fs[wf[1].temp] = Absent

\* "d/hello", new, written in two writes and finalized: the file holds the
\* three bytes, and the temporary file was in /t/d, not in /t.
C14_Witness ==
  /\ tree_pc = "finalized"
  /\ wf_before = Some(Absent)
  /\ wf[1].final_path = << "t", "d", "hello" >>
  /\ wf[1].temp = << "t", "d", ".tmpB" >>
  /\ tree_fs[wf[1].final_path] = File(<< 1, 0, 1 >>)

\* C15: a WriteFile that is dropped without finalize never becomes visible:
\* after the drop, and after the LocalTree is dropped too, the final path
\* holds what it held before write_file, nothing if it did not exist,
\* whatever was written.
C15_DroppedIsDiscarded ==
  tree_pc = "dropped" =>
    /\ tree_fs[wf[1].final_path] = wf_before[1]
    /\ wf_before = Some(Absent) => tree_fs[wf[1].final_path].kind = "absent"

\* test::dropped_file_is_discarded: content written, the WriteFile dropped,
\* then the LocalTree dropped, and the path did not exist before.
C15_Witness ==
  /\ tree_pc = "dropped"
  /\ ~lt_alive
  /\ wf_before = Some(Absent)
  /\ wf_written # <<>>
  /\ wf[1].final_path = << "t", "hello" >>
  /\ tree_fs[wf[1].temp] = Absent

(***************************************************************************)
(* SpecVarint: ReadVarint::read_i64 and read_server_statistics over a byte  *)
(* stream (src/src/varint.rs, src/src/connection.rs).                      *)
(***************************************************************************)
\* Most i64 encodings in a stream handed to read_server_statistics.
MaxStats == 6

\* Bytes the generated i64 values and first words are made of.
I64ByteValues == { 0, 128, 255 }

\* The sentinel: the four bytes of the i32 -1.
SentinelWord == << 255, 255, 255, 255 >>

\* Test vectors: the encodings of src/src/varint.rs test::read_i64 and a
\* negative short form, each with the i64 it stands for.
StatVectors ==
  { [ bytes |-> << 16, 0, 0, 0 >>, value |-> << 16, 0, 0, 0, 0, 0, 0, 0 >> ],
    [ bytes |-> << 254, 255, 255, 255 >>,
      value |-> << 254, 255, 255, 255, 255, 255, 255, 255 >> ],
    [ bytes |-> SentinelWord \o << 0, 17, 34, 51, 68, 85, 102, 119 >>,
      value |-> << 0, 17, 34, 51, 68, 85, 102, 119 >> ] }

\* The i64 values handed to the writer.
I64Values ==
  [ 1..8 -> I64ByteValues ] \cup { x.value : x \in StatVectors }

\* The i64 writer the specification describes; src/src/varint.rs holds only
\* write_i32 and write_u8.  A value that fits in an i32 and is not -1 is
\* written as that i32; any other value as the i32 -1 followed by the eight
\* little-endian bytes of the value.
write_i64(b) ==
  LET fits == \A i \in 5..8 : b[i] = (IF b[4] >= 128 THEN 255 ELSE 0)
      low == SubSeq(b, 1, 4)
  IN  IF fits /\ low # SentinelWord THEN low ELSE SentinelWord \o b

\* Streams handed to read_i64: a first word, what follows it, and possibly a
\* stream that ends early.
VarintWires ==
  { SubSeq(h \o t, 1, Min(n, Len(h \o t))) :
      h \in [ 1..4 -> I64ByteValues ] \cup { << 16, 0, 0, 0 >>, << 254, 255, 255, 255 >> },
      t \in { <<>>, << 0, 17, 34, 51, 68, 85, 102, 119 >>,
              << 0, 0, 0, 0, 0, 0, 0, 128, 9 >> },
      n \in { 0, 3, 4, 5, 11, 12, 13 } }

\* What a stream handed to read_server_statistics is made of: whole
\* encodings and the beginning of one.
StatItems == { x.bytes : x \in StatVectors } \cup { << 16, 0 >> }

StatStreams == UNION { [ 1..n -> StatItems ] : n \in 0..MaxStats }

\* Protocol versions read_server_statistics is called with.
StatVersions == { 27, 28, 29, 30 }

InitVarint ==
  /\ SessionIdle
  /\ NameIdle
  /\ FlistIdle
  /\ DemuxIdle
  /\ ClientIdle
  /\ TreeIdle
  /\ HandshakeIdle
  /\ PipesIdle
  /\ MuxIdle
  /\ vi_result = None
  /\ \/ /\ vi_pc = "value"
        /\ vi_value \in { Some(v) : v \in I64Values }
        /\ vi_given = <<>>
        /\ vi_wire = <<>>
        /\ vi_pv = 0
     \/ /\ vi_pc = "wire"
        /\ vi_value = None
        /\ vi_given \in { << w >> : w \in VarintWires }
        /\ vi_wire = Flatten(vi_given)
        /\ vi_pv = 0
     \/ /\ vi_pc = "stats"
        /\ vi_value = None
        /\ vi_given \in StatStreams
        /\ vi_wire = Flatten(vi_given)
        /\ vi_pv \in StatVersions

\* The peer writes the value to the stream.
WriteI64 ==
  /\ vi_pc = "value"
  /\ vi_given' = << write_i64(vi_value[1]) >>
  /\ vi_wire' = write_i64(vi_value[1])
  /\ vi_pc' = "wire"
  /\ UNCHANGED << vi_value, vi_pv, vi_result >>
  /\ UNCHANGED exceptVarint

\* rv.read_i64()
ReadI64 ==
  /\ vi_pc = "wire"
  /\ LET x == read_i64(vi_wire) IN
       /\ vi_result' = Some(x)
       /\ vi_wire' = x.rest
  /\ vi_pc' = "read"
  /\ UNCHANGED << vi_value, vi_given, vi_pv >>
  /\ UNCHANGED exceptVarint

\* read_server_statistics that reads five values whatever the version.
read_server_statistics_AlwaysFive(w, pv) ==
  LET a == read_i64(w)
      b == read_i64(a.rest)
      c == read_i64(b.rest)
      d == read_i64(c.rest)
      e == read_i64(d.rest)
  IN  IF ~a.ok THEN a
      ELSE IF ~b.ok THEN b
      ELSE IF ~c.ok THEN c
      ELSE IF ~d.ok THEN d
      ELSE IF ~e.ok THEN e
      ELSE [ ok |-> TRUE,
             v |-> [ total_bytes_read |-> a.v, total_bytes_written |-> b.v,
                     total_file_size |-> c.v,
                     flist_build_time |-> Some(d.v),
                     flist_xfer_time |-> Some(e.v) ],
             rest |-> e.rest ]

\* read_server_statistics(rv, protocol_version): the fields are read in the
\* order the struct literal names them, and the first read that fails
\* returns its error.
read_server_statistics(w, pv) ==
  LET a == read_i64(w)
      b == read_i64(a.rest)
      c == read_i64(b.rest)
      d == IF pv >= 29 THEN read_i64(c.rest)
                       ELSE [ ok |-> TRUE, v |-> <<>>, rest |-> c.rest ]
      e == IF pv >= 29 THEN read_i64(d.rest)
                       ELSE [ ok |-> TRUE, v |-> <<>>, rest |-> d.rest ]
  IN  IF ~a.ok THEN a
      ELSE IF ~b.ok THEN b
      ELSE IF ~c.ok THEN c
      ELSE IF ~d.ok THEN d
      ELSE IF ~e.ok THEN e
      ELSE [ ok |-> TRUE,
             v |-> [ total_bytes_read |-> a.v, total_bytes_written |-> b.v,
                     total_file_size |-> c.v,
                     flist_build_time |-> IF pv >= 29 THEN Some(d.v) ELSE None,
                     flist_xfer_time |-> IF pv >= 29 THEN Some(e.v) ELSE None ],
             rest |-> e.rest ]

ReadServerStatisticsBytes ==
  /\ vi_pc = "stats"
  /\ LET x == read_server_statistics(vi_wire, vi_pv) IN
       /\ vi_result' = Some(x)
       /\ vi_wire' = x.rest
  /\ vi_pc' = "read_stats"
  /\ UNCHANGED << vi_value, vi_given, vi_pv >>
  /\ UNCHANGED exceptVarint

NextVarint == WriteI64 \/ ReadI64 \/ ReadServerStatisticsBytes

SpecVarint == InitVarint /\ [][NextVarint]_vars

\* The value is in the range of an i32.
FitsInI32(b) ==
  \/ b[4] < 128 /\ SubSeq(b, 5, 8) = << 0, 0, 0, 0 >>
  \/ b[4] >= 128 /\ SubSeq(b, 5, 8) = << 255, 255, 255, 255 >>

MinusOneI64 == << 255, 255, 255, 255, 255, 255, 255, 255 >>

\* C16: for every i64 value, reading back what the writer wrote yields the
\* value and leaves nothing unread; and the writer emits the 4-byte short
\* form exactly when the value fits in an i32 and is not -1, the 12-byte
\* long form (the sentinel, then the eight bytes of the value) otherwise.
C16_RoundTrip ==
  /\ (vi_pc = "read" /\ vi_value # None) =>
       /\ vi_result[1].ok
       /\ vi_result[1].v = vi_value[1]
       /\ vi_wire = <<>>
  /\ (vi_value # None /\ vi_given # <<>>) =>
       LET v == vi_value[1]
           written == vi_given[1]
       IN  IF FitsInI32(v) /\ v # MinusOneI64
             THEN Len(written) = 4
             ELSE /\ Len(written) = 12
                  /\ SubSeq(written, 1, 4) = SentinelWord
                  /\ SubSeq(written, 5, 12) = v

\* A negative value in the short form has been written and read back.
C16_Witness ==
  /\ vi_pc = "read"
  /\ vi_value # None
  /\ vi_value[1][8] = 255
  /\ Len(vi_given[1]) = 4
  /\ vi_result[1].ok

\* What read_i64 was given, once it has run on at least a first word.
ReadI64Done == vi_pc = "read" /\ Len(Flatten(vi_given)) >= 4

\* The first word of the stream read_i64 was given.
FirstWord == SubSeq(Flatten(vi_given), 1, 4)

\* After a sentinel, the eight bytes that follow are the value and are
\* consumed.
LongFormRead ==
  LET w == Flatten(vi_given) IN
    Len(w) >= 12 =>
      /\ vi_result[1].ok
      /\ vi_result[1].v = SubSeq(w, 5, 12)
      /\ vi_wire = SubSeq(w, 13, Len(w))

\* Without a sentinel the first word alone is consumed, and the upper half
\* of the value is made of the byte `upper`.
ShortFormRead(upper) ==
  LET w == Flatten(vi_given) IN
    /\ vi_result[1].ok
    /\ vi_result[1].v = FirstWord \o << upper, upper, upper, upper >>
    /\ vi_wire = SubSeq(w, 5, Len(w))

\* C17 as stated: read_i64 reads one little-endian i32; a value of -1 makes
\* it consume eight further bytes and return them as a little-endian i64;
\* any other value is returned zero-extended, nothing more being consumed.
C17_ZeroExtension ==
  ReadI64Done =>
    IF FirstWord = SentinelWord THEN LongFormRead ELSE ShortFormRead(0)

\* C17 amended: read_i64 reads one little-endian i32; a value of -1 makes it
\* consume eight further bytes and return them as a little-endian i64; any
\* other value is returned sign-extended, nothing more being consumed, so
\* that a first word with the top bit set yields a negative value.
C17_SignExtension ==
  ReadI64Done =>
    IF FirstWord = SentinelWord THEN LongFormRead
    ELSE /\ ShortFormRead(IF FirstWord[4] >= 128 THEN 255 ELSE 0)
         /\ FirstWord[4] >= 128 => IsNegativeI64(vi_result[1].v)

\* read_i64 has returned from a first word with the top bit set that is not
\* the sentinel.
C17_Witness ==
  /\ ReadI64Done
  /\ vi_value = None
  /\ FirstWord[4] >= 128
  /\ FirstWord # SentinelWord
  /\ vi_result[1].ok

\* The i64 a whole encoding of the stream stands for.
ValueOf(b) == (CHOOSE x \in StatVectors : x.bytes = b).value

\* The first k items of the stream are whole encodings.
WholeItems(k) ==
  /\ Len(vi_given) >= k
  /\ \A i \in 1..k : vi_given[i] \in { x.bytes : x \in StatVectors }

\* C18: read_server_statistics consumes exactly three i64 values
\* (total_bytes_read, total_bytes_written, total_file_size, in that order)
\* when the agreed protocol is below 29 and exactly five when it is 29 or
\* higher; flist_build_time and flist_xfer_time are present in the result
\* iff the agreed protocol is at least 29.
C18_StatisticsByVersion ==
  vi_pc = "read_stats" =>
    LET n == IF vi_pv < 29 THEN 3 ELSE 5
        res == vi_result[1]
    IN  /\ WholeItems(n) =>
              /\ res.ok
              /\ vi_wire = Flatten(SubSeq(vi_given, n + 1, Len(vi_given)))
              /\ res.v.total_bytes_read = ValueOf(vi_given[1])
              /\ res.v.total_bytes_written = ValueOf(vi_given[2])
              /\ res.v.total_file_size = ValueOf(vi_given[3])
              /\ vi_pv >= 29 =>
                   /\ res.v.flist_build_time = Some(ValueOf(vi_given[4]))
                   /\ res.v.flist_xfer_time = Some(ValueOf(vi_given[5]))
        /\ (WholeItems(Len(vi_given)) /\ Len(vi_given) < n) => ~res.ok
        /\ res.ok =>
              /\ (res.v.flist_build_time # None) <=> (vi_pv >= 29)
              /\ (res.v.flist_xfer_time # None) <=> (vi_pv >= 29)

\* Protocol 28 and a stream of more than three encodings: the statistics
\* are read and the encodings after the third are left in the stream.
C18_Witness ==
  /\ vi_pc = "read_stats"
  /\ vi_pv = 28
  /\ WholeItems(4)
  /\ vi_result[1].ok
  /\ vi_wire # <<>>

(***************************************************************************)
(* SpecFromStr: Client::from_str as a pure function (src/src/client.rs).   *)
(***************************************************************************)
\* Longest generated address, the rsync:// prefix not counted.
MaxAddrLen == 5

\* Characters the generated addresses are made of.
AddrChars == { "h", "@", ":", "/", "7" }

AddrBodies == UNION { [ 1..n -> AddrChars ] : n \in 0..MaxAddrLen }

\* The addresses of the tests of src/src/client.rs, shortened, with ports
\* at and above the largest u16, and a path that holds a line break.
AddrVectors ==
  { UrlPrefix \o << "a", "@", "h", ":", "8", "3", "7", "0", "/", "a", "/", "b" >>,
    UrlPrefix \o << "h", ":", "6", "5", "5", "3", "5", "/", "m" >>,
    UrlPrefix \o << "h", ":", "6", "5", "5", "3", "6", "/", "m" >>,
    UrlPrefix \o << "h", ":", "0", "0", "0", "0", "0", "8", "0", "/", "m" >>,
    << "h", ":", "a", "\n", "b" >> }

FromStrAddresses ==
  AddrBodies \cup { UrlPrefix \o b : b \in AddrBodies } \cup AddrVectors

InitFromStr ==
  /\ SessionIdle
  /\ NameIdle
  /\ FlistIdle
  /\ DemuxIdle
  /\ TreeIdle
  /\ VarintIdle
  /\ HandshakeIdle
  /\ PipesIdle
  /\ MuxIdle
  /\ addr \in FromStrAddresses
  /\ client = None
  /\ args = <<>>
  /\ conn_options = None
  /\ client_pc = "new"

NextFromStr == FromStr

SpecFromStr == InitFromStr /\ [][NextFromStr]_vars

\* The text t is not empty and none of its characters is in cs.
Word(t, cs) == t # <<>> /\ \A k \in 1..Len(t) : t[k] \notin cs

\* The ways to take b as [user@]host<sep>rest, with the separator at
\* position p: the user (None without one), the host and the rest.
HostForms(b, sep, hostStops) ==
  { f \in { [ user |-> IF a = 0 THEN None ELSE Some(SubSeq(b, 1, a - 1)),
              host |-> SubSeq(b, a + 1, p - 1),
              rest |-> SubSeq(b, p + Len(sep), Len(b)) ] :
              a \in 0..Len(b), p \in 1..Len(b) } :
      /\ f.user # None => Word(f.user[1], { "@", ":" })
      /\ Word(f.host, hostStops)
      /\ \E a \in 0..Len(b), p \in 1..Len(b) :
           /\ a < p
           /\ a # 0 => b[a] = "@"
           /\ p + Len(sep) - 1 <= Len(b)
           /\ SubSeq(b, p, p + Len(sep) - 1) = sep
           /\ f = [ user |-> IF a = 0 THEN None ELSE Some(SubSeq(b, 1, a - 1)),
                    host |-> SubSeq(b, a + 1, p - 1),
                    rest |-> SubSeq(b, p + Len(sep), Len(b)) ] }

\* rsync://[user@]host[:port]/path: the daemons and paths s can be read as.
UrlForms(s) ==
  IF Len(s) < Len(UrlPrefix) \/ SubSeq(s, 1, Len(UrlPrefix)) # UrlPrefix THEN {}
  ELSE
    LET b == SubSeq(s, Len(UrlPrefix) + 1, Len(s)) IN
      { [ daemon |-> [ user |-> f.user, host |-> f.host, port |-> None ],
          path |-> f.rest ] : f \in HostForms(b, << "/" >>, { ":", "/" }) }
      \cup
      UNION { { [ daemon |-> [ user |-> f.user, host |-> f.host,
                               port |-> Some(DecimalValue(SubSeq(f.rest, 1, q - 1))) ],
                  path |-> SubSeq(f.rest, q + 1, Len(f.rest)) ] :
                  q \in { q \in 2..Len(f.rest) :
                            /\ f.rest[q] = "/"
                            /\ \A k \in 1..(q - 1) : f.rest[k] \in Digits } } :
              f \in HostForms(b, << ":" >>, { ":", "/" }) }

\* [user@]host::path
DaemonForms(s) ==
  { [ daemon |-> [ user |-> f.user, host |-> f.host, port |-> None ],
      path |-> f.rest ] : f \in HostForms(s, << ":", ":" >>, { ":", "@" }) }

\* [user@]host:path
SshForms(s) ==
  { [ ssh |-> [ user |-> f.user, host |-> f.host ], path |-> f.rest ] :
      f \in HostForms(s, << ":" >>, { ":", "@" }) }

\* C19: from_str classifies its input with this precedence:
\* rsync://[user@]host[:port]/path yields daemon mode with that host, user,
\* port and path; otherwise [user@]host::path yields daemon mode with no
\* port; otherwise [user@]host:path yields an ssh transport with that user
\* and host; any other string is taken whole as a local path with neither
\* ssh nor daemon.  Exactly one of ssh, daemon, neither is selected and the
\* options are the defaults.
C19_FromStrPrecedence ==
  client_pc # "new" =>
    /\ client_pc = "built"
    /\ client # None
    /\ client[1].options = DefaultOptions
    /\ client[1].ssh = None \/ client[1].daemon = None
    /\ IF UrlForms(addr) # {}
         THEN /\ client[1].ssh = None
              /\ \E f \in UrlForms(addr) :
                   client[1].daemon = Some(f.daemon) /\ client[1].path = f.path
       ELSE IF DaemonForms(addr) # {}
         THEN /\ client[1].ssh = None
              /\ \E f \in DaemonForms(addr) :
                   client[1].daemon = Some(f.daemon) /\ client[1].path = f.path
       ELSE IF SshForms(addr) # {}
         THEN /\ client[1].daemon = None
              /\ \E f \in SshForms(addr) :
                   client[1].ssh = Some(f.ssh) /\ client[1].path = f.path
       ELSE /\ client[1].ssh = None
            /\ client[1].daemon = None
            /\ client[1].path = addr

(***************************************************************************)
(* Further properties of DemuxRead.                                        *)
(***************************************************************************)
\* The bytes that arrived end where a frame ends (or before the first one).
EndsAtFrameBoundary ==
  \E k \in 0..Len(frames) :
    Len(EncodeFrames(frames)) - lost = Len(EncodeFrames(SubSeq(frames, 1, k)))

\* C20: DemuxRead reports end of stream (a read of zero bytes, no error)
\* only when the underlying stream ends exactly at a frame boundary, before
\* any byte of a header; when the stream ends after 1 to 3 header bytes or
\* inside the payload of a data frame or a message frame, no read returns
\* zero bytes without an error.
C20_EofOnlyAtFrameBoundary ==
  demux_state = "eof" => EndsAtFrameBoundary

\* How many bytes of the stream arrived, how many DemuxRead has taken from
\* the underlying stream, and where the k-th frame ends in the stream.
Arrived == Len(EncodeFrames(frames)) - lost
Consumed == Arrived - Len(r)
FrameEnd(k) == Len(EncodeFrames(SubSeq(frames, 1, k)))

\* The next read parses the header of frame k after the headers and
\* payloads of the messages (tags other than 1 and 7) that lie before it
\* from the frame j the stream stands at.
ParsesFrom(j, k) ==
  /\ current_packet_len = 0
  /\ j <= k
  /\ Consumed = FrameEnd(j - 1)
  /\ FrameEnd(k - 1) + 4 <= Arrived
  /\ \A i \in j..(k - 1) : frames[i].tag \notin { 1, 7 }

Parses(k) == \E j \in 1..k : ParsesFrom(j, k)

\* The payloads of the frames j..k, one element each.
PayloadsOf(j, k) == [ i \in 1..(k + 1 - j) |-> frames[j + i - 1].payload ]

\* C21: when a read parses a header with tag 7 and length 0 it fails with
\* an invalid-data error: it does not return zero bytes as for an end of
\* stream, it returns no byte, and it does not go on to the next frame.
C21_ZeroLengthDataIsError ==
  [][ \A k \in DOMAIN frames :
        (Parses(k) /\ frames[k].tag = 7 /\ frames[k].payload = <<>>) =>
          /\ demux_state' = "InvalidData"
          /\ delivered' = delivered
          /\ Len(r') = Arrived - FrameEnd(k)
          /\ current_packet_len' = 0 ]_vars

\* A zero-length data frame followed by a data frame with bytes: the read
\* has failed and has returned nothing.
C21_Witness ==
  /\ Len(frames) >= 2
  /\ frames[1].tag = 7
  /\ frames[1].payload = <<>>
  /\ frames[2].tag = 7
  /\ frames[2].payload # <<>>
  /\ lost = 0
  /\ demux_state = "InvalidData"
  /\ delivered = <<>>
  /\ Len(r) = Arrived - FrameEnd(1)

\* C22: when a read parses a header with tag 1 it consumes the whole
\* payload of that frame, hands it to the log and fails with a
\* connection-aborted error, returning no byte of that payload or of a later
\* frame.  A header with a tag other than 1 and 7 has its payload consumed
\* and logged and parsing goes on with the next header within the same read:
\* the read that ends at the fatal frame k or at the data frame k has logged
\* every message from the frame j it started at.
C22_FatalAndMessages ==
  [][ \A k \in DOMAIN frames : \A j \in 1..k :
        /\ (ParsesFrom(j, k) /\ frames[k].tag = 1 /\ FrameEnd(k) <= Arrived) =>
             /\ demux_state' = "ConnectionAborted"
             /\ delivered' = delivered
             /\ remote_log' = remote_log \o PayloadsOf(j, k)
             /\ Len(r') = Arrived - FrameEnd(k)
             /\ current_packet_len' = 0
        /\ (ParsesFrom(j, k) /\ frames[k].tag = 7 /\ frames[k].payload # <<>>) =>
             /\ remote_log' = remote_log \o PayloadsOf(j, k - 1)
             /\ demux_state' \in { "data", "eof" }
             /\ \E n \in 0..Len(frames[k].payload) :
                  /\ delivered' = delivered \o SubSeq(frames[k].payload, 1, n)
                  /\ Len(r') = Arrived - (FrameEnd(k - 1) + 4 + n) ]_vars

\* A message, a fatal message and a data frame, all with bytes: the first
\* read has logged both messages, has failed and has returned nothing.
C22_Witness ==
  /\ Len(frames) = 3
  /\ frames[1].tag = 2
  /\ frames[2].tag = 1
  /\ frames[3].tag = 7
  /\ \A k \in 1..3 : frames[k].payload # <<>>
  /\ demux_state = "ConnectionAborted"
  /\ remote_log = << frames[1].payload, frames[2].payload >>
  /\ delivered = <<>>
  /\ Len(r) = Arrived - FrameEnd(2)

\* C23: in every reachable state current_packet_len is the number of
\* payload bytes of the current data frame not yet returned to the caller
\* and lies in 0..0xFFFFFF; each read returns at most min(buffer length,
\* current_packet_len) bytes and decreases current_packet_len by exactly the
\* number returned; a header is parsed only when current_packet_len is 0.
C23_CurrentPacketLen ==
  /\ [](current_packet_len \in 0..16777215)
  /\ [](current_packet_len > 0 =>
          \E k \in DOMAIN frames :
            /\ frames[k].tag = 7
            /\ FrameEnd(k - 1) + 4 <= Consumed
            /\ Consumed + current_packet_len = FrameEnd(k))
  /\ [][ \A b \in 1..MaxBuf :
           DemuxRead(b) =>
             LET n == Len(delivered') - Len(delivered) IN
               /\ n \in 0..b
               /\ current_packet_len > 0 =>
                    /\ n <= current_packet_len
                    /\ current_packet_len' = current_packet_len - n
                    /\ delivered' = delivered \o SubSeq(r, 1, n)
                    /\ r' = SubSeq(r, n + 1, Len(r))
                    /\ remote_log' = remote_log
               /\ (current_packet_len = 0 /\ n > 0) =>
                    \E k \in DOMAIN frames :
                      /\ Parses(k)
                      /\ frames[k].tag = 7
                      /\ n <= Len(frames[k].payload)
                      /\ current_packet_len' = Len(frames[k].payload) - n
                      /\ Len(r') = Arrived - (FrameEnd(k - 1) + 4 + n) ]_vars

\* A data frame of two bytes read with a buffer of one byte and a data frame
\* after it: the first byte has been returned and one is left of the frame.
C23_Witness ==
  /\ Len(frames) >= 2
  /\ frames[1].tag = 7
  /\ Len(frames[1].payload) = 2
  /\ frames[2].tag = 7
  /\ delivered = SubSeq(frames[1].payload, 1, 1)
  /\ current_packet_len = 1
  /\ demux_state = "data"

(***************************************************************************)
(* SpecHandshake: Connection::handshake over the bytes of both directions, *)
(* and the reads and writes of the Connection it returns                   *)
(* (src/src/connection.rs, src/src/varint.rs, src/src/mux.rs).             *)
(***************************************************************************)
\* Most i32 values written to the server.
MaxSent == 1

\* Values written after the handshake: the empty exclusion list and the
\* end-of-phase marker.
SentValues == { 0, -1 }

\* wv.write_i32(v): the bytes handed to write_all.
write_i32(v) == ToLeBytes32(v)

\* The bytes a server sends: version, checksum seed, then frames.
HandshakeStreams(fs) ==
  { ToLeBytes32(v) \o ToLeBytes32(s) \o EncodeFrames(fs) :
      v \in ServerVersions, s \in ChecksumSeeds }

InitHandshake ==
  /\ SessionIdle
  /\ NameIdle
  /\ FlistIdle
  /\ ClientIdle
  /\ TreeIdle
  /\ VarintIdle
  /\ PipesIdle
  /\ MuxIdle
  /\ frames \in FrameSequences
  /\ lost \in 0..MaxLost
  /\ \E st \in HandshakeStreams(frames) :
       hs_given = SubSeq(st, 1, Len(st) - lost)
  /\ r = hs_given
  /\ current_packet_len = 0
  /\ delivered = <<>>
  /\ remote_log = <<>>
  /\ demux_state = "idle"
  /\ hs_pc = "write_version"
  /\ hs_sent = <<>>
  /\ hs_wv = <<>>
  /\ hs_rv = <<>>
  /\ hs_conn = None

\* wv.write_i32(v) on the raw writer: write_all writes every byte, or fails
\* after some of them.
WvWriteI32(v, next) ==
  /\ hs_sent' = Append(hs_sent, v)
  /\ \/ /\ hs_wv' = hs_wv \o write_i32(v)
        /\ hs_pc' = next
     \/ /\ \E n \in 0..3 : hs_wv' = hs_wv \o SubSeq(write_i32(v), 1, n)
        /\ hs_pc' = "failed"

\* wv.write_i32(MY_PROTOCOL_VERSION)?
HsWriteVersion ==
  /\ hs_pc = "write_version"
  /\ WvWriteI32(MY_PROTOCOL_VERSION, "read_version")
  /\ UNCHANGED << hs_rv, hs_conn, hs_given, demuxVars, exceptHandshake >>

\* rv.read_i32() on the raw reader: the value, or an error after the bytes
\* that were there have been taken.
RvReadI32(x) ==
  /\ hs_rv' = hs_rv \o (IF x.ok THEN SubSeq(r, 1, 4) ELSE r)
  /\ r' = x.rest

\* let remote_protocol_version = rv.read_i32().unwrap(), and the bail! for
\* a version that is too old.
HsReadVersion ==
  /\ hs_pc = "read_version"
  /\ LET x == read_i32(r) IN
       /\ RvReadI32(x)
       /\ hs_pc' = IF ~x.ok THEN "panicked"
                   ELSE IF x.v < MY_PROTOCOL_VERSION THEN "failed"
                   ELSE "read_seed"
  /\ UNCHANGED << hs_sent, hs_wv, hs_conn, hs_given, current_packet_len, delivered,
                  remote_log, frames, lost, demux_state, exceptHandshake >>

\* handshake that wraps the reader in the DemuxRead without reading the seed.
HsReadSeed_NoSeed ==
  /\ hs_pc = "read_seed"
  /\ hs_conn' = Some([ protocol_version |->
                         Min(MY_PROTOCOL_VERSION, FromLeBytes32(SubSeq(hs_rv, 1, 4))),
                       checksum_seed |-> 0 ])
  /\ current_packet_len' = 0
  /\ demux_state' = "open"
  /\ hs_pc' = "connected"
  /\ UNCHANGED << hs_sent, hs_wv, hs_rv, hs_given, r, delivered, remote_log, frames,
                  lost, exceptHandshake >>

\* let checksum_seed = rv.read_i32().unwrap(), the agreed version,
\* ReadVarint::new(Box::new(DemuxRead::new(rv.take()))) and Ok(Connection).
\* remote_protocol_version is the value of the first four bytes read.
HsReadSeed ==
  /\ hs_pc = "read_seed"
  /\ LET x == read_i32(r) IN
       /\ RvReadI32(x)
       /\ IF ~x.ok
            THEN /\ hs_pc' = "panicked"
                 /\ UNCHANGED << hs_conn, current_packet_len, demux_state >>
            ELSE /\ hs_conn' = Some([ protocol_version |->
                                        Min(MY_PROTOCOL_VERSION,
                                            FromLeBytes32(SubSeq(hs_rv, 1, 4))),
                                      checksum_seed |-> x.v ])
                 /\ current_packet_len' = 0
                 /\ demux_state' = "open"
                 /\ hs_pc' = "connected"
  /\ UNCHANGED << hs_sent, hs_wv, hs_given, delivered, remote_log, frames, lost,
                  exceptHandshake >>

\* self.wv.write_i32(v) of the Connection.
ConnWriteI32 ==
  /\ hs_pc = "connected"
  /\ Len(hs_sent) < 1 + MaxSent
  /\ \E v \in SentValues : WvWriteI32(v, "connected")
  /\ UNCHANGED << hs_rv, hs_conn, hs_given, demuxVars, exceptHandshake >>

\* A read of self.rv of the Connection, which goes to DemuxRead::read.
ConnRead ==
  /\ hs_pc = "connected"
  /\ \E buflen \in 1..MaxBuf : DemuxRead(buflen)

NextHandshake ==
  \/ HsWriteVersion
  \/ HsReadVersion
  \/ HsReadSeed
  \/ ConnWriteI32
  \/ ConnRead

SpecHandshake == InitHandshake /\ [][NextHandshake]_vars

\* The little-endian bytes of the values the client writes.
SentBytes(v) ==
  CASE v = 27 -> << 27, 0, 0, 0 >>
    [] v = 0 -> << 0, 0, 0, 0 >>
    [] v = -1 -> << 255, 255, 255, 255 >>

\* C24: the client writes its 4-byte version (27, unframed) before it reads
\* anything; it reads exactly eight unframed bytes from the server, the
\* version and then the checksum seed; every byte read from the server
\* after those eight is read through the demultiplexer; and nothing the
\* client writes is framed: its output is the little-endian bytes of the
\* values written and nothing else.
C24_HandshakeFraming ==
  /\ [](r # hs_given => (Len(hs_wv) >= 4 /\ SubSeq(hs_wv, 1, 4) = << 27, 0, 0, 0 >>))
  /\ [](/\ Len(hs_rv) <= 8
        /\ hs_rv = SubSeq(hs_given, 1, Len(hs_rv)))
  /\ [](hs_pc = "connected" =>
          /\ Len(hs_rv) = 8
          /\ hs_conn[1].checksum_seed = FromLeBytes32(SubSeq(hs_given, 5, 8))
          /\ hs_conn[1].protocol_version =
               Min(27, FromLeBytes32(SubSeq(hs_given, 1, 4))))
  /\ [](demux_state # "idle" => (Len(hs_rv) = 8 /\ hs_conn # None))
  /\ [](\A i \in DOMAIN delivered :
          \E k \in DOMAIN frames :
            frames[k].tag = 7 /\ Has(frames[k].payload, delivered[i]))
  /\ [][ (r' # r /\ Len(hs_rv) = 8) =>
           (hs_rv' = hs_rv /\ \E b \in 1..MaxBuf : DemuxRead(b)) ]_vars
  /\ [](/\ IsPrefix(hs_wv, Flatten([ i \in DOMAIN hs_sent |-> SentBytes(hs_sent[i]) ]))
        /\ hs_pc # "failed" =>
             hs_wv = Flatten([ i \in DOMAIN hs_sent |-> SentBytes(hs_sent[i]) ]))

\* After the handshake the client has written a second value and has read a
\* byte of a data frame that came after a message.
C24_Witness ==
  /\ hs_pc = "connected"
  /\ Len(hs_sent) = 2
  /\ Len(frames) >= 2
  /\ frames[1].tag = 2
  /\ frames[2].tag = 7
  /\ delivered # <<>>
  /\ remote_log # <<>>

(***************************************************************************)
(* Further properties of read_file_list (SpecFlist).                       *)
(***************************************************************************)
\* The k-th entry sent is one whose fields are known.
Known(k) == \E f \in EntryVectors : EntryBytes(f) = flist_sent[k]

\* The fields of the k-th entry sent.
FieldsOf(k) == CHOOSE f \in EntryVectors : EntryBytes(f) = flist_sent[k]

\* C25: for every entry after the first, the decoded name is the first
\* min(n, length of the previous name) bytes of the previous entry's name
\* followed by the bytes freshly read, n being the inherited count (0 when
\* flag 0x20 is clear) and the previous entry the one just before it in wire
\* order; mtime is that entry's mtime iff flag 0x80 is set and mode its mode
\* iff flag 0x02 is set, otherwise each is read as a fresh i32.  The fields
\* come in the order inherited count, name length (i32 iff flag 0x40, else
\* u8), name bytes, file_len, mtime, mode: the order EntryBytes writes.
C25_Inheritance ==
  \A k \in 2..Len(decoded) :
    Known(k) =>
      LET f == FieldsOf(k)
          prev == decoded[k - 1]
          n == IF f.inherit_flag THEN f.inherit ELSE 0
      IN  /\ decoded[k].name = SubSeq(prev.name, 1, Min(n, Len(prev.name))) \o f.fresh
          /\ decoded[k].file_len = f.file_len
          /\ decoded[k].mtime = IF f.repeat_mtime THEN prev.mtime
                                ELSE ToLeBytes32(f.mtime)
          /\ decoded[k].mode = IF f.repeat_mode THEN prev.mode
                               ELSE ToLeBytes32(f.mode)

\* Three entries decoded: "d" with its own mtime and mode, "ab" sent with a
\* long name length, then an entry that takes more bytes than "ab" has and
\* the mtime from it, which is not that of the first entry.
C25_Witness ==
  /\ Len(decoded) = 3
  /\ decoded[1].name = << 100 >>
  /\ decoded[2].name = << 97, 98 >>
  /\ decoded[3].name = << 97, 98, 120 >>
  /\ decoded[3].mtime = decoded[2].mtime
  /\ decoded[3].mtime # decoded[1].mtime

\* read_file_list has returned or panicked after it met the k-th entry sent,
\* which arrived whole: the entries before it were decoded and nothing after.
StoppedAt(k) ==
  /\ flist_state \in { "ok", "err", "panicked" }
  /\ k < Len(flist_sent)
  /\ Len(decoded) = k - 1

\* C26: when the first entry of a file list carries an inheritance flag (a
\* name prefix with a count above zero, mtime, or mode), read_file_list
\* returns an error value: it neither inherits from nothing nor aborts.
C26_FirstEntryInheritanceIsError ==
  (/\ flist_state # "reading"
   /\ Len(flist_sent) >= 2
   /\ Known(1)
   /\ \/ FieldsOf(1).inherit_flag /\ FieldsOf(1).inherit > 0
      \/ FieldsOf(1).repeat_mtime
      \/ FieldsOf(1).repeat_mode)
  => (flist_state = "err" /\ decoded = <<>>)

\* The name the k-th entry sent decodes to.
SentName(k) ==
  LET f == FieldsOf(k)
      n == IF f.inherit_flag /\ k > 1 THEN f.inherit ELSE 0
  IN  (IF n = 0 THEN <<>>
       ELSE SubSeq(decoded[k - 1].name, 1, Min(n, Len(decoded[k - 1].name))))
        \o f.fresh

\* A name that is empty, absolute, or has an empty or ".." segment.
UnsafeName(n) == n = <<>> \/ n[1] = Slash \/ HasBadSegment(n)

\* C27: whenever a decoded name is empty, absolute, or has an empty or ".."
\* segment, read_file_list returns an error value and no file list, for the
\* empty name as for the other violations; and no entry with such a name is
\* part of a returned list.
C27_UnsafeNameIsError ==
  /\ \A k \in DOMAIN flist_sent :
       (/\ StoppedAt(k)
        /\ Known(k)
        /\ ~(k = 1 /\ FieldsOf(k).inherit_flag /\ FieldsOf(k).inherit > 0)
        /\ UnsafeName(SentName(k)))
       => flist_state = "err"
  /\ flist_state = "ok" =>
       \A i \in DOMAIN flist_vec : ~UnsafeName(flist_vec[i].name)

\* C28: an entry whose file_len decodes to a negative value makes
\* read_file_list return an error, and every entry of a returned list has
\* the file_len that was sent for it, which is not negative.
C28_NegativeFileLen ==
  /\ \A k \in DOMAIN flist_sent :
       (/\ StoppedAt(k)
        /\ Known(k)
        /\ ~(k = 1 /\ FieldsOf(k).inherit_flag /\ FieldsOf(k).inherit > 0)
        /\ ~UnsafeName(SentName(k))
        /\ FieldsOf(k).file_len[8] >= 128)
       => flist_state = "err"
  /\ flist_state = "ok" =>
       \A i \in DOMAIN flist_vec :
         \E k \in DOMAIN decoded :
           /\ Known(k)
           /\ flist_vec[i] = decoded[k]
           /\ flist_vec[i].file_len = FieldsOf(k).file_len
           /\ flist_vec[i].file_len[8] < 128

\* After one entry was decoded, an entry with a negative file_len in the
\* long form has made read_file_list return an error.
C28_Witness ==
  /\ StoppedAt(2)
  /\ Known(2)
  /\ Len(FieldsOf(2).file_len_wire) = 12
  /\ FieldsOf(2).file_len[8] >= 128
  /\ flist_state = "err"

(***************************************************************************)
(* Further properties of the session: generate_files and                   *)
(* receive_offered_files.                                                  *)
(***************************************************************************)
\* The requests for the regular files among the first n entries of the
\* file list, in list order: the zero-based index and four zeros each.
RECURSIVE RequestsOf(_)
RequestsOf(n) ==
  IF n = 0 THEN << >>
  ELSE RequestsOf(n - 1) \o
       (IF file_list[n].mode = ModeFile THEN << n - 1, 0, 0, 0, 0 >> ELSE << >>)

\* What the client has written once generate_files has returned Ok: its
\* version, the empty exclusion list, the requests and the phase marker.
WrittenAfterGenerate ==
  << MY_PROTOCOL_VERSION, 0 >> \o RequestsOf(Len(file_list)) \o << -1 >>

\* C29: generate_files writes, for each index of a regular file and for no
\* other, the index and four zeros, in increasing order, and then a single
\* -1; it writes nothing else, and a step that writes reads nothing from
\* the server.
C29_GenerateFiles ==
  /\ [](pc = "scope" => IsPrefix(out, WrittenAfterGenerate))
  /\ []((pc = "scope" /\ gpc = "ok") => out = WrittenAfterGenerate)
  /\ [][(pc = "scope" /\ out' # out) =>
          UNCHANGED << inp, rpc, cur, hasher, records, summary, local_tree >>]_vars

\* generate_files has returned Ok for a list of a directory and a regular
\* file: the one request is for index 1.
C29_Witness ==
  /\ pc = "scope"
  /\ gpc = "ok"
  /\ Len(file_list) = 2
  /\ file_list[1].mode = ModeDir
  /\ file_list[2].mode = ModeFile
  /\ out = << MY_PROTOCOL_VERSION, 0, 1, 0, 0, 0, 0, -1 >>

\* C30 (as claimed): a step of the receiver that counts an invalid file
\* index leaves the receiver at the read of the next index: it neither
\* ends the thread nor starts to receive a file.
C30_InvalidIndexContinues ==
  [][(rpc = "read_idx" /\
      summary'.invalid_file_index_count = summary.invalid_file_index_count + 1)
     => rpc' = "read_idx"]_vars

\* The receiver thread has panicked at a block reference: every panic at
\* a file index is counted in invalid_file_index_count first.
BlockRefPanic == rpc = "panicked" /\ summary.invalid_file_index_count = 0

ReceivedLiterals == Flatten([ i \in DOMAIN records |-> records[i].literals ])

\* C32: the receiver takes the records as the server sends them, whatever
\* was requested: every record with an index inside the list is received,
\* so that files_received is the number of records and
\* literal_bytes_received the number of literal bytes of all of them, while
\* the receiver runs and when it has returned Ok at the server's -1.
C32_AnyOrderOfRecords ==
  /\ [](rpc \in { "read_idx", "read_sums", "read_token", "read_literal",
                  "read_md4", "ok" } =>
          /\ summary.files_received = Len(records)
          /\ summary.literal_bytes_received =
               Len(ReceivedLiterals) + Len(cur.literals)
          /\ \A i \in DOMAIN records :
               records[i].idx \in 0 .. Len(file_list) - 1)
  /\ [][(rpc = "read_idx" /\ rpc' = "read_sums") =>
          cur'.idx \in 0 .. Len(file_list) - 1]_vars
  /\ [][(rpc = "read_idx" /\ rpc' = "ok") => summary' = summary]_vars

\* The receiver has returned Ok after two records for index 0, a directory
\* that was never requested, while the regular file at index 1 was left
\* out and the generator has not finished.
C32_Witness ==
  /\ rpc = "ok"
  /\ gpc = "running"
  /\ Len(file_list) = 2
  /\ file_list[1].mode = ModeDir
  /\ file_list[2].mode = ModeFile
  /\ Len(records) = 2
  /\ records[1].idx = 0
  /\ records[2].idx = 0
  /\ summary.files_received = 2
  /\ summary.literal_bytes_received = 2

\* A thread of phase 1 is still running.
Phase1Running ==
  \/ gpc = "running"
  \/ rpc \in { "read_idx", "read_sums", "read_token", "read_literal", "read_md4" }

\* C33 (as claimed): in a download the driver goes on after phase 1 only
\* when the generator has written its -1 and the receiver has read the
\* server's -1, and while a thread of phase 1 runs the driver takes no
\* step of its own.
C33_DriverWaitsForBoth ==
  /\ []((gpc # "idle" /\ pc \notin { "scope", "panicked" }) =>
          (gpc = "ok" /\ rpc = "ok"))
  /\ [][Phase1Running => UNCHANGED << pc, phase, child, wv, inp >>]_vars

\* What the receiver thread holds: its position, the record and the hasher
\* of receive_file, and what it has received.
receiverVars == << rpc, cur, hasher, records >>

\* C34: while the scope of phase 1 is open the file list never changes,
\* the driver reads nothing, every write is a step of the running generator
\* that leaves the summary and the receiver alone, and every change of the
\* summary or of the receiver leaves the generator and the written values
\* alone.
C34_Phase1Ownership ==
  [][pc = "scope" =>
       /\ file_list' = file_list
       /\ inp' = inp
       /\ out' # out =>
            (gpc = "running" /\ summary' = summary /\ UNCHANGED receiverVars)
       /\ << gpc, g_next >>' # << gpc, g_next >> =>
            (summary' = summary /\ UNCHANGED receiverVars)
       /\ (summary' # summary \/ receiverVars' # receiverVars) =>
            (out' = out /\ UNCHANGED << gpc, g_next >> /\ Phase1Running)]_vars

\* The generator has written a request and still runs while the receiver
\* has already counted a record.
C34_Witness ==
  /\ pc = "scope"
  /\ gpc = "running"
  /\ g_next > 1
  /\ Len(out) > 2
  /\ Len(records) = 1
  /\ summary.files_received = 1
  /\ rpc = "read_token"

(***************************************************************************)
(* Phase 1 of a download over two pipes of finite capacity                 *)
(* (Connection::receive_files, src/src/connection.rs): SpecPipes.          *)
(* generate_files runs on the calling thread and writes into the pipe to   *)
(* the server, the receiver thread reads from the pipe from the server,    *)
(* and the server is one sequential process: it reads a request, writes    *)
(* the record of that file, and echoes the phase marker.  A write blocks   *)
(* while its pipe is full, a read while its pipe is empty.                 *)
(***************************************************************************)
\* Longest file list.
MaxPipeFiles == 3
\* Largest capacity of a pipe, in values.
MaxPipeCap == 2

\* The file lists: regular files and directories, never empty
\* (assert!(!file_list.is_empty())).
PipeLists ==
  UNION { [1..n -> {ModeFile, ModeDir}] : n \in 1..MaxPipeFiles }

\* The record the server sends for the file at a zero-based index: the
\* index, a SumHead, one literal chunk of one byte, the end token and the
\* digest (one value stands for its sixteen bytes).
ServerRecord(idx) == << idx, 0, 0, 0, 0, 1, 7, 0, 16 >>

InitPipes ==
  /\ SessionIdle
  /\ NameIdle
  /\ FlistIdle
  /\ DemuxIdle
  /\ ClientIdle
  /\ TreeIdle
  /\ VarintIdle
  /\ HandshakeIdle
  /\ MuxIdle
  /\ pp_list \in PipeLists
  /\ pp_cap \in (1..MaxPipeCap) \X (1..MaxPipeCap)
  /\ pp_req = <<>>
  /\ pp_data = <<>>
  /\ pp_gen = [ pc |-> "running", next |-> 1, buf |-> <<>> ]
  /\ pp_srv = [ pc |-> "running", request |-> <<>>, buf |-> <<>> ]
  /\ pp_rcv = [ pc |-> "read_idx", pos |-> 0 ]

\* Positions of pp_list at or after `from` that hold a regular file.
PipeFilesFrom(from) == { i \in from..Len(pp_list) : is_file(pp_list[i]) }

\* generate_files on the calling thread.  With nothing left of its last
\* writes it takes the next regular file (wv.write_i32(idx) and
\* SumHead::zero().write(wv)) or, after the loop, wv.write_i32(-1); a value
\* goes into the pipe only while the pipe has room.
PipeGenerate ==
  /\ pp_gen.pc \in { "running", "last" }
  /\ IF pp_gen.buf = <<>>
       THEN /\ pp_gen.pc = "running"
            /\ IF PipeFilesFrom(pp_gen.next) # {}
                 THEN LET i == Least(PipeFilesFrom(pp_gen.next))
                      IN  pp_gen' = [ pc |-> "running", next |-> i + 1,
                                      buf |-> << i - 1 >> \o SumHeadZero ]
                 ELSE pp_gen' = [ pp_gen EXCEPT !.pc = "last", !.buf = << -1 >> ]
            /\ UNCHANGED pp_req
       ELSE /\ Len(pp_req) < pp_cap[1]
            /\ pp_req' = Append(pp_req, Head(pp_gen.buf))
            /\ pp_gen' = [ pp_gen EXCEPT
                 !.buf = Tail(@),
                 !.pc = IF pp_gen.pc = "last" THEN "ok" ELSE @ ]
  /\ UNCHANGED << pp_list, pp_cap, pp_data, pp_srv, pp_rcv >>
  /\ UNCHANGED exceptPipes

\* The server.  With nothing left to write it reads one value: the marker
\* -1 in the place of an index is echoed, the fifth value of a request
\* makes the record of that file what it writes next.  While it has
\* something to write it reads nothing, and it writes only while the pipe
\* to the client has room.
PipeServer ==
  /\ pp_srv.pc = "running"
  /\ IF pp_srv.buf = <<>>
       THEN /\ pp_req # <<>>
            /\ pp_req' = Tail(pp_req)
            /\ LET v == Head(pp_req)
                   request == Append(pp_srv.request, v)
               IN  pp_srv' =
                     IF pp_srv.request = <<>> /\ v = -1
                       THEN [ pp_srv EXCEPT !.buf = << -1 >> ]
                     ELSE IF Len(request) = 5
                       THEN [ pp_srv EXCEPT !.request = <<>>,
                                            !.buf = ServerRecord(request[1]) ]
                     ELSE [ pp_srv EXCEPT !.request = request ]
            /\ UNCHANGED pp_data
       ELSE /\ Len(pp_data) < pp_cap[2]
            /\ pp_data' = Append(pp_data, Head(pp_srv.buf))
            /\ pp_srv' = [ pp_srv EXCEPT
                 !.buf = Tail(@),
                 !.pc = IF Head(pp_srv.buf) = -1 /\ Len(pp_srv.buf) = 1
                          THEN "done" ELSE @ ]
            /\ UNCHANGED pp_req
  /\ UNCHANGED << pp_list, pp_cap, pp_gen, pp_rcv >>
  /\ UNCHANGED exceptPipes

\* The next position of the receiver inside a record, after the value v
\* was read at position pos: 0 is the index, 1..4 the SumHead, 5 a token,
\* 6 the literal chunk, 7 the digest.
AfterValue(pos, v) ==
  IF pos < 5 THEN pos + 1
  ELSE IF pos = 5 THEN (IF v = 0 THEN 7 ELSE 6)
  ELSE IF pos = 6 THEN 5
  ELSE 0

\* A receiver that is started when generate_files has returned.
PipeReceive_AfterGenerator ==
  /\ pp_gen.pc = "ok"
  /\ pp_rcv.pc = "read_idx"
  /\ pp_data # <<>>
  /\ pp_data' = Tail(pp_data)
  /\ pp_rcv' =
       IF pp_rcv.pos = 0 /\ Head(pp_data) = -1
         THEN [ pp_rcv EXCEPT !.pc = "ok" ]
         ELSE [ pp_rcv EXCEPT !.pos = AfterValue(pp_rcv.pos, Head(pp_data)) ]
  /\ UNCHANGED << pp_list, pp_cap, pp_req, pp_gen, pp_srv >>
  /\ UNCHANGED exceptPipes

\* The receiver thread, spawned before generate_files is called:
\* receive_offered_files and receive_file read one value after the other,
\* and -1 in the place of an index ends the thread with Ok.
PipeReceive ==
  /\ pp_rcv.pc = "read_idx"
  /\ pp_data # <<>>
  /\ pp_data' = Tail(pp_data)
  /\ pp_rcv' =
       IF pp_rcv.pos = 0 /\ Head(pp_data) = -1
         THEN [ pp_rcv EXCEPT !.pc = "ok" ]
         ELSE [ pp_rcv EXCEPT !.pos = AfterValue(pp_rcv.pos, Head(pp_data)) ]
  /\ UNCHANGED << pp_list, pp_cap, pp_req, pp_gen, pp_srv >>
  /\ UNCHANGED exceptPipes

NextPipes ==
  \/ PipeGenerate
  \/ PipeServer
  \/ PipeReceive

\* The two threads and the server process are scheduled by the operating
\* system: each of them runs again whenever it stays able to.
SpecPipes ==
  /\ InitPipes
  /\ [][NextPipes]_vars
  /\ WF_vars(PipeGenerate)
  /\ WF_vars(PipeServer)
  /\ WF_vars(PipeReceive)

\* generate_files is blocked in a write: the pipe to the server is full.
GeneratorBlocked == pp_gen.buf # <<>> /\ Len(pp_req) = pp_cap[1]

\* The server is blocked in a write: the pipe to the client is full.
ServerBlocked == pp_srv.buf # <<>> /\ Len(pp_data) = pp_cap[2]

\* C35: with pipes of finite capacity and a server that answers every
\* request and echoes the marker, phase 1 ends: whenever the generator and
\* the server are both blocked in a write the receiver is still reading,
\* and both threads eventually finish, for every file list.
C35_Phase1Terminates ==
  /\ []((GeneratorBlocked /\ ServerBlocked) => pp_rcv.pc = "read_idx")
  /\ <>(pp_gen.pc = "ok" /\ pp_rcv.pc = "ok")

\* Generator and server are both blocked in a write, with both pipes of
\* capacity one, before the last file was requested.
C35_Witness ==
  /\ GeneratorBlocked
  /\ ServerBlocked
  /\ pp_cap = << 1, 1 >>
  /\ pp_gen.pc = "running"
  /\ Len(pp_list) = MaxPipeFiles

(***************************************************************************)
(* Further properties of the session: the soft-error count and list_only.  *)
(***************************************************************************)
\* C36: after the file list one soft-error count is read if and only if
\* the agreed version is below 30; the value read is stored in
\* summary.server_flist_io_error_count, and whatever it is the session goes
\* on as the list alone decides: to the end for an empty list, to the
\* phases otherwise.
C36_SoftErrorCount ==
  /\ [](Count(inp, "io_error_count") <= 1)
  /\ [](Count(inp, "io_error_count") = 1 => protocol_version < 30)
  /\ [][(pc = "read_file_list" /\ inp' # inp) =>
          /\ protocol_version < 30 => pc' = "read_io_error_count"
          /\ protocol_version >= 30 => pc' \in { "check_for_eof", "phase_start" }]_vars
  /\ [][(pc = "read_io_error_count" /\ inp' # inp) =>
          /\ inp' = Append(inp, "io_error_count")
          /\ \E c \in IoErrorCounts :
               summary' = [summary EXCEPT !.server_flist_io_error_count = c]
          /\ pc' = IF file_list = <<>> THEN "check_for_eof" ELSE "phase_start"]_vars
  /\ [][pc # "read_io_error_count" =>
          /\ Count(inp', "io_error_count") = Count(inp, "io_error_count")
          /\ summary'.server_flist_io_error_count = summary.server_flist_io_error_count]_vars

\* A download ran to its end after the server reported three soft errors.
C36_Witness ==
  /\ pc = "done"
  /\ ~list_only
  /\ file_list # <<>>
  /\ protocol_version < 30
  /\ summary.server_flist_io_error_count = 3
  /\ Count(inp, "io_error_count") = 1

\* The driver is at the marker exchange of a phase.
AtMarkerExchange == pc \in { "phase_write", "phase_read" }

\* C37: with list_only phase 1 is a marker exchange: no index and no sum
\* header is written (after the version and the exclusion list only -1),
\* neither thread is started and files_received and literal_bytes_received
\* stay zero.  Without list_only phase 1 of a non-empty list is
\* receive_files, and phase 2 is reached only after generator and receiver
\* ran.  Phase 2 is a marker exchange in both cases: it writes -1, reads
\* the echo and changes nothing of the threads or the summary.
C37_ListOnlyPhases ==
  /\ [](list_only =>
          /\ gpc = "idle" /\ rpc = "idle"
          /\ summary.files_received = 0
          /\ summary.literal_bytes_received = 0
          /\ \A i \in 3 .. Len(out) : out[i] = -1
          /\ phase = 1 => (AtMarkerExchange \/ pc \in { "failed", "panicked" }))
  /\ [](~list_only =>
          /\ phase >= 1 => file_list # <<>>
          /\ phase = 1 => pc \in { "receive_files", "scope", "panicked" }
          /\ phase = 2 => (gpc # "idle" /\ rpc # "idle"))
  /\ [](phase = 2 => pc \notin { "receive_files", "scope" })
  /\ [][(phase = 2 /\ AtMarkerExchange) =>
          /\ UNCHANGED << threadVars, summary >>
          /\ out' # out => out' = Append(out, -1)
          /\ inp' # inp => inp' = Append(inp, "echo2")]_vars

\* A list-only session has finished phase 1 with one marker written and
\* its echo read, and stands at the marker exchange of phase 2.
C37_Witness ==
  /\ list_only
  /\ phase = 2
  /\ pc = "phase_write"
  /\ file_list # <<>>
  /\ out = << MY_PROTOCOL_VERSION, 0, -1 >>
  /\ Has(inp, "echo1")

(***************************************************************************)
(* MuxWrite (src/src/mux.rs) in front of DemuxRead: SpecMux.  The chunks   *)
(* are written one per call of write() into a stream in memory, the        *)
(* stream is closed, and DemuxRead reads it.                               *)
(***************************************************************************)
\* Most calls of write() in one run.
MaxChunks == 2
\* Longest buffer that is written out byte by byte.
MaxChunkLen == 2

\* The bound of the assertion in MuxWrite::write, 0x0ff_ffff.
PacketLimit == 16777215

\* Bytes of a chunk: a zero and the data tag.
MuxChunkBytes == { 0, 7 }

\* The buffers passed to write().
MuxChunks == UNION { [1..n -> MuxChunkBytes] : n \in 0..MaxChunkLen }

\* Lengths of buffers at the bound of the assertion; of such a buffer the
\* model keeps the length alone.
LongLengths == { PacketLimit - 1, PacketLimit }

InitMux ==
  /\ SessionIdle
  /\ NameIdle
  /\ FlistIdle
  /\ ClientIdle
  /\ TreeIdle
  /\ VarintIdle
  /\ HandshakeIdle
  /\ PipesIdle
  /\ DemuxIdle
  /\ mx_pc = "writing"
  /\ mx_chunks = <<>>
  /\ mx_long = None

\* MuxWrite::write up to the header: the assertion on the length, which
\* panics (None), and `l as u32 | ((TAG_DATA as u32) << 24)` in
\* little-endian order.
MuxWriteHeader(l) ==
  IF l < PacketLimit
    THEN Some(ToLeBytes32(l + TAG_DATA * 16777216))
    ELSE None

\* MuxWrite::write(buf): the header and then the buffer, each with
\* write_all on the underlying stream.
MuxWrite ==
  /\ mx_pc = "writing"
  /\ Len(mx_chunks) < MaxChunks
  /\ \E buf \in MuxChunks :
       LET h == MuxWriteHeader(Len(buf)) IN
         IF h = None
           THEN /\ mx_pc' = "panicked"
                /\ UNCHANGED << r, mx_chunks >>
           ELSE /\ r' = r \o h[1] \o buf
                /\ mx_chunks' = Append(mx_chunks, buf)
                /\ UNCHANGED mx_pc
  /\ UNCHANGED << mx_long, current_packet_len, delivered, remote_log, frames,
                  lost, demux_state >>
  /\ UNCHANGED exceptMux

\* MuxWrite::write of a buffer of a length at the bound of the assertion.
\* The body is not written out: the run ends after the header.
MuxWriteLong ==
  /\ mx_pc = "writing"
  /\ \E l \in LongLengths :
       LET h == MuxWriteHeader(l) IN
         /\ mx_long' = Some(l)
         /\ IF h = None
              THEN /\ mx_pc' = "panicked"
                   /\ UNCHANGED r
              ELSE /\ r' = r \o h[1]
                   /\ mx_pc' = "long_written"
  /\ UNCHANGED << mx_chunks, current_packet_len, delivered, remote_log, frames,
                  lost, demux_state >>
  /\ UNCHANGED exceptMux

\* The writer is dropped and DemuxRead::new wraps the stream.
MuxClose ==
  /\ mx_pc = "writing"
  /\ mx_pc' = "closed"
  /\ demux_state' = "open"
  /\ UNCHANGED << mx_chunks, mx_long, r, current_packet_len, delivered,
                  remote_log, frames, lost >>
  /\ UNCHANGED exceptMux

\* DemuxRead::read on the stream that was written.
MuxRead ==
  /\ mx_pc = "closed"
  /\ \E buflen \in 1..MaxBuf : DemuxRead(buflen)

NextMux ==
  \/ MuxWrite
  \/ MuxWriteLong
  \/ MuxClose
  \/ MuxRead

SpecMux == InitMux /\ [][NextMux]_vars

\* The header of a data frame of length l, as the claim has it:
\* (7 << 24) | l in little-endian order.
DataHeader(l) == << l % 256, (l \div 256) % 256, (l \div 65536) % 256, 7 >>

\* s ends with t.
EndsWith(s, t) ==
  Len(s) >= Len(t) /\ SubSeq(s, Len(s) - Len(t) + 1, Len(s)) = t

\* C38 (as claimed): every write() of a chunk of at most 0xFFFFFF bytes
\* emits the header of a data frame of that length and then the chunk, and
\* DemuxRead reads from the stream of any such chunks their concatenation:
\* it meets no error and at the end of the stream it has returned all of
\* them.
C38_MuxDemuxRoundTrip ==
  /\ [](mx_pc # "panicked")
  /\ [](mx_long # None => EndsWith(r, DataHeader(mx_long[1])))
  /\ [][mx_chunks' # mx_chunks =>
          r' = r \o DataHeader(Len(mx_chunks'[Len(mx_chunks')]))
                 \o mx_chunks'[Len(mx_chunks')]]_vars
  /\ [](demux_state \in { "idle", "open", "data", "eof" })
  /\ [](demux_state = "eof" => delivered = Flatten(mx_chunks))

(***************************************************************************)
(* Further properties of sort_and_dedupe (SpecFlist): `decoded` is the     *)
(* list it is applied to, flist_vec the list it leaves.                    *)
(***************************************************************************)
\* The names of a list.
NamesOf(v) == { v[i].name : i \in DOMAIN v }

\* The orderings of a list.
Reorderings(v) ==
  { [ i \in 1..Len(v) |-> v[f[i]] ] : f \in IndexPermutations(Len(v)) }

\* Entries of a list that share a name are the same in every field.
EqualNamesAreEqual(v) ==
  \A i, j \in DOMAIN v : v[i].name = v[j].name => v[i] = v[j]

\* C39: the names sort_and_dedupe leaves are the names it was given, each
\* once, and every entry it leaves is one of the entries given; applied to
\* its own result it changes nothing; and when entries of equal name are
\* equal, every ordering of the input gives the same result.
C39_SortAndDedupe ==
  flist_state = "ok" =>
    /\ NamesOf(flist_vec) = NamesOf(decoded)
    /\ \A i, j \in DOMAIN flist_vec :
         i # j => flist_vec[i].name # flist_vec[j].name
    /\ \A i \in DOMAIN flist_vec : \E k \in DOMAIN decoded : flist_vec[i] = decoded[k]
    /\ sort_and_dedupe(flist_vec) = { flist_vec }
    /\ EqualNamesAreEqual(decoded) =>
         \A w \in Reorderings(decoded) : sort_and_dedupe(w) = { flist_vec }

\* Three entries were given, out of order, two of them equal: two are left.
C39_Witness ==
  /\ flist_state = "ok"
  /\ Len(decoded) = 3
  /\ Len(flist_vec) = 2
  /\ EqualNamesAreEqual(decoded)
  /\ decoded[1] = decoded[3]
  /\ NameCmp(decoded[1].name, decoded[2].name) = "Greater"

(***************************************************************************)
(* Further properties of Client::from_str (SpecFromStr).                   *)
(***************************************************************************)
\* The number a run of decimal digits denotes.
RECURSIVE Numeral(_)
Numeral(t) ==
  IF t = <<>> THEN 0
  ELSE 10 * Numeral(SubSeq(t, 1, Len(t) - 1)) + DigitValue(t[Len(t)])

\* The port parts of s read as rsync://[user@]host:port/path: the runs of
\* digits between the ':' after the host and the next '/'.
PortParts(s) ==
  IF Len(s) < Len(UrlPrefix) \/ SubSeq(s, 1, Len(UrlPrefix)) # UrlPrefix THEN {}
  ELSE
    LET b == SubSeq(s, Len(UrlPrefix) + 1, Len(s)) IN
      UNION { { SubSeq(f.rest, 1, q - 1) :
                  q \in { q \in 2..Len(f.rest) :
                            /\ f.rest[q] = "/"
                            /\ \A k \in 1..(q - 1) : f.rest[k] \in Digits } } :
              f \in HostForms(b, << ":" >>, { ":", "/" }) }

\* C40 (as claimed): from_str returns Ok with a client for every string and
\* never aborts, and for an rsync:// URL with a port of decimal digits the
\* port of the daemon is the number those digits denote.
C40_FromStrTotal ==
  client_pc # "new" =>
    /\ client_pc = "built"
    /\ client # None
    /\ \A t \in PortParts(addr) :
         /\ client[1].daemon # None
         /\ client[1].daemon[1].port = Some(Numeral(t))

====
